---- MODULE Spec2Model ----
(***************************************************************************)
(* A model of the GDScript declaration parser of godotdoc                  *)
(* (src/src/parser.rs).  Text is a sequence of one-character strings, so   *)
(* the scanners and grammars are computed character by character as the    *)
(* code computes them.  Positions are 1-based; 0 stands for "not found".   *)
(* An Option<T> is a sequence of length 0 (None) or 1 (Some(x)).           *)
(***************************************************************************)
EXTENDS Integers, Sequences, FiniteSets, TLC

\* ------------------------------------------------------------------------
\* Bounds of the model
\* ------------------------------------------------------------------------

\* The number of physical lines an input file may hold.
MaxLines == 4

\* ------------------------------------------------------------------------
\* Text helpers (the std::str operations the parser uses)
\* ------------------------------------------------------------------------

None == <<>>
Some(x) == <<x>>
IsSome(o) == o # <<>>
Unwrap(o) == o[1]
UnwrapOr(o, d) == IF o = <<>> THEN d ELSE o[1]

IsWhitespace(c) == c \in {" ", "\t"}

Digits == {"0", "1", "2", "3", "4", "5", "6", "7", "8", "9"}

DigitValue(c) ==
    CASE c = "0" -> 0 [] c = "1" -> 1 [] c = "2" -> 2 [] c = "3" -> 3
      [] c = "4" -> 4 [] c = "5" -> 5 [] c = "6" -> 6 [] c = "7" -> 7
      [] c = "8" -> 8 [] c = "9" -> 9

\* s[from..] of Rust, with from counted from 0 (so Drop(s, n) drops n chars).
Drop(s, n) == IF n >= Len(s) THEN <<>> ELSE SubSeq(s, n + 1, Len(s))
\* s[..to] of Rust: the first n characters.
Take(s, n) == IF n <= 0 THEN <<>> ELSE SubSeq(s, 1, IF n > Len(s) THEN Len(s) ELSE n)

StartsWith(s, p) == Len(s) >= Len(p) /\ SubSeq(s, 1, Len(p)) = p
EndsWith(s, p) == Len(s) >= Len(p) /\ SubSeq(s, Len(s) - Len(p) + 1, Len(s)) = p
Contains(s, c) == \E i \in 1..Len(s) : s[i] = c

RECURSIVE TrimStart(_)
TrimStart(s) ==
    IF s # <<>> /\ IsWhitespace(s[1]) THEN TrimStart(Tail(s)) ELSE s

RECURSIVE TrimEnd(_)
TrimEnd(s) ==
    IF s # <<>> /\ IsWhitespace(s[Len(s)])
    THEN TrimEnd(SubSeq(s, 1, Len(s) - 1))
    ELSE s

Trim(s) == TrimEnd(TrimStart(s))

\* str::find(char): the 1-based position of the first c, 0 if there is none.
IndexOf(s, c) ==
    IF Contains(s, c)
    THEN CHOOSE i \in 1..Len(s) : s[i] = c /\ \A j \in 1..(i - 1) : s[j] # c
    ELSE 0

\* str::find(&str): the 1-based position of the first occurrence of p.
IndexOfStr(s, p) ==
    LET Hits == {i \in 1..(Len(s) - Len(p) + 1) : SubSeq(s, i, i + Len(p) - 1) = p}
    IN  IF Hits = {} THEN 0 ELSE CHOOSE i \in Hits : \A j \in Hits : i <= j

\* str::split(char): the pieces between the separators, at least one piece.
RECURSIVE Split(_, _)
Split(s, c) ==
    LET p == IndexOf(s, c)
    IN  IF p = 0 THEN <<s>> ELSE <<Take(s, p - 1)>> \o Split(Drop(s, p), c)

RECURSIVE DigitsValue(_, _)
DigitsValue(s, acc) ==
    IF s = <<>> THEN acc ELSE DigitsValue(Tail(s), 10 * acc + DigitValue(s[1]))

\* str::parse::<isize>(): an optional sign and at least one digit, nothing else.
\* The literals of the model stay far below isize::MAX.
ParseInt(s) ==
    LET signed == s # <<>> /\ s[1] \in {"+", "-"}
        body == IF signed THEN Tail(s) ELSE s
    IN  IF body = <<>> \/ \E i \in 1..Len(body) : body[i] \notin Digits
        THEN None
        ELSE Some(IF signed /\ s[1] = "-" THEN 0 - DigitsValue(body, 0)
                  ELSE DigitsValue(body, 0))

\* get_indentation_level: the number of leading tab characters.
RECURSIVE get_indentation_level(_)
get_indentation_level(s) ==
    IF s # <<>> /\ s[1] = "\t" THEN 1 + get_indentation_level(Tail(s)) ELSE 0

\* ------------------------------------------------------------------------
\* The bracket/string-aware scanner: find, and get_comment on top of it
\* ------------------------------------------------------------------------

NoError == ""

\* Matcher::matches run from position i of chars until it fails, finishes or
\* the text ends: midx is StringMatcher.index, which survives a run that ends
\* with the text.  A char predicate behaves as a pattern of length one.
RECURSIVE MatchFrom(_, _, _, _)
MatchFrom(chars, p, k, midx) ==
    IF k > Len(chars) THEN [finished |-> FALSE, index |-> midx]
    ELSE IF midx > Len(p) \/ p[midx + 1] # chars[k]
         THEN [finished |-> FALSE, index |-> 0]
    ELSE IF midx = Len(p) - 1
         THEN [finished |-> TRUE, index |-> midx]
    ELSE MatchFrom(chars, p, k + 1, midx + 1)

Opener(c) == CASE c = ")" -> "(" [] c = "]" -> "[" [] c = "}" -> "{"

RECURSIVE FindScan(_, _, _, _, _, _, _)
RECURSIVE FindStep(_, _, _, _, _, _, _)

\* The body of `for i in 0..len`: m is the matcher's run from position i.
FindStep(chars, p, i, single_string, double_string, parentheses, m) ==
    LET c == chars[i]
    IN  IF m.finished
        THEN [pos |-> i, err |-> NoError, extra |-> "", parentheses |-> parentheses]
        ELSE IF c = "\"" /\ ~single_string
        THEN FindScan(chars, p, i + 1, single_string, TRUE, parentheses, m.index)
        ELSE IF c = "'" /\ ~double_string
        THEN FindScan(chars, p, i + 1, TRUE, double_string, parentheses, m.index)
        ELSE IF c \in {"(", "[", "{"}
        THEN FindScan(chars, p, i + 1, single_string, double_string,
                      Append(parentheses, c), m.index)
        ELSE IF c \in {")", "]", "}"}
        THEN IF parentheses = <<>>
             THEN [pos |-> 0, err |-> "extra", extra |-> c,
                   parentheses |-> parentheses]
             ELSE IF parentheses[Len(parentheses)] # Opener(c)
             THEN [pos |-> 0, err |-> "mismatch", extra |-> c,
                   parentheses |-> SubSeq(parentheses, 1, Len(parentheses) - 1)]
             ELSE FindScan(chars, p, i + 1, single_string, double_string,
                           SubSeq(parentheses, 1, Len(parentheses) - 1), m.index)
        ELSE FindScan(chars, p, i + 1, single_string, double_string,
                      parentheses, m.index)

FindScan(chars, p, i, single_string, double_string, parentheses, midx) ==
    IF i > Len(chars)
    THEN [pos |-> 0, err |-> NoError, extra |-> "", parentheses |-> parentheses]
    ELSE FindStep(chars, p, i, single_string, double_string, parentheses,
                  IF ~single_string /\ ~double_string
                  THEN MatchFrom(chars, p, i, midx)
                  ELSE [finished |-> FALSE, index |-> midx])

\* find(filename, lineno, s, p, parentheses): pos is the 1-based position of
\* the first match (0: none), err the failure, parentheses the stack it leaves.
find(s, p, parentheses) == FindScan(s, p, 1, FALSE, FALSE, parentheses, 0)

\* The split get_comment makes at the position f that find reports.
CommentAt(line, f) ==
    IF f.err # NoError
    THEN [err |-> f.err, extra |-> f.extra, code |-> <<>>, comment |-> None,
          parentheses |-> f.parentheses]
    ELSE IF f.pos # 0
    THEN [err |-> NoError, extra |-> "", code |-> TrimEnd(Take(line, f.pos - 1)),
          comment |-> Some(Trim(Drop(line, f.pos))),
          parentheses |-> f.parentheses]
    ELSE [err |-> NoError, extra |-> "", code |-> line, comment |-> None,
          parentheses |-> f.parentheses]

\* get_comment: the code before the first '#' (right-trimmed) and the trimmed
\* comment after it, or the whole line and no comment.
get_comment(line, parentheses) ==
    CommentAt(line, find(line, <<"#">>, parentheses))

\* ------------------------------------------------------------------------
\* Declaration grammars: parse_assignment and parse_function
\* ------------------------------------------------------------------------

SetgetToken == <<" ", "s", "e", "t", "g", "e", "t", " ">>

\* The setget slice matched against ["", get], [set] | [set, ""], [set, get].
SetgetMatch(setget) ==
    IF Len(setget) = 2 /\ setget[1] = <<>>
    THEN [ok |-> TRUE, setter |-> None, getter |-> Some(setget[2])]
    ELSE IF Len(setget) = 1 \/ (Len(setget) = 2 /\ setget[2] = <<>>)
    THEN [ok |-> TRUE, setter |-> Some(setget[1]), getter |-> None]
    ELSE IF Len(setget) = 2
    THEN [ok |-> TRUE, setter |-> Some(setget[1]), getter |-> Some(setget[2])]
    ELSE [ok |-> FALSE, setter |-> None, getter |-> None]

TrimAll(pieces) == [i \in 1..Len(pieces) |-> Trim(pieces[i])]

\* The setget clause: line[spos + 7..] split on ',' and trimmed.
SetgetClause(line, spos) == SetgetMatch(TrimAll(Split(Drop(line, spos + 6), ",")))

AssignmentError(kind) ==
    [err |-> kind, name |-> <<>>, value_type |-> None, assignment |-> None,
     setter |-> None, getter |-> None]

\* An arm of the match that has a setget clause: the clause is matched first.
WithSetget(sg, name, value_type, assignment) ==
    IF ~sg.ok THEN AssignmentError("invalid syntax")
    ELSE [err |-> NoError, name |-> name, value_type |-> value_type,
          assignment |-> assignment, setter |-> sg.setter, getter |-> sg.getter]

WithoutSetget(name, value_type, assignment) ==
    [err |-> NoError, name |-> name, value_type |-> value_type,
     assignment |-> assignment, setter |-> None, getter |-> None]

\* match (assignment_pos, type_pos, setget_pos), the arms in source order.
AssignmentMatch(line, apos, tpos, spos) ==
    IF apos # 0 /\ tpos # 0 /\ spos # 0 /\ tpos < apos /\ apos < spos
    THEN WithSetget(SetgetClause(line, spos), Trim(Take(line, tpos - 1)),
                    Some(Trim(SubSeq(line, tpos + 1, apos - 1))),
                    Some(Trim(SubSeq(line, apos + 1, spos - 1))))
    ELSE IF apos # 0 /\ tpos # 0 /\ spos = 0 /\ tpos < apos
    THEN WithoutSetget(Trim(Take(line, tpos - 1)),
                       Some(Trim(SubSeq(line, tpos + 1, apos - 1))),
                       Some(Trim(Drop(line, apos))))
    ELSE IF apos # 0 /\ tpos = 0 /\ spos # 0 /\ apos < spos
    THEN WithSetget(SetgetClause(line, spos), Trim(Take(line, apos - 1)), None,
                    Some(Trim(SubSeq(line, apos + 1, spos - 1))))
    ELSE IF apos # 0 /\ tpos = 0 /\ spos = 0
    THEN WithoutSetget(Trim(Take(line, apos - 1)), None, Some(Trim(Drop(line, apos))))
    ELSE IF apos = 0 /\ tpos # 0 /\ spos # 0 /\ tpos < spos
    THEN WithSetget(SetgetClause(line, spos), Trim(Take(line, tpos - 1)),
                    Some(Trim(SubSeq(line, tpos + 1, spos - 1))), None)
    ELSE IF apos = 0 /\ tpos # 0 /\ spos = 0
    THEN WithoutSetget(Trim(Take(line, tpos - 1)), Some(Trim(Drop(line, tpos))), None)
    ELSE IF apos = 0 /\ tpos = 0 /\ spos # 0
    THEN WithSetget(SetgetClause(line, spos), Trim(Take(line, spos - 1)), None, None)
    ELSE IF apos = 0 /\ tpos = 0 /\ spos = 0
    THEN WithoutSetget(Trim(line), None, None)
    ELSE AssignmentError("invalid syntax")

\* The three scans of parse_assignment, each on a bracket stack of its own;
\* a bracket error of any of them ends the parse.
AssignmentScans(line, fa, ft, fs) ==
    IF fa.err # NoError THEN AssignmentError(fa.err)
    ELSE IF ft.err # NoError THEN AssignmentError(ft.err)
    ELSE IF fs.err # NoError THEN AssignmentError(fs.err)
    ELSE AssignmentMatch(line, fa.pos, ft.pos, fs.pos)

\* parse_assignment: the tail of a var/const/export declaration split at the
\* positions find reports for '=', ':' and " setget ".
parse_assignment(line) ==
    AssignmentScans(line, find(line, <<"=">>, <<>>), find(line, <<":">>, <<>>),
                    find(line, SetgetToken, <<>>))

FunctionArgument(st) ==
    [name |-> st.current_argument_name, value_type |-> st.current_argument_type,
     default_value |-> st.current_argument_assignment]

\* The flush without the match on parentheses_count: every argument goes to
\* the primary list.
PushArgument_always_primary(st) ==
    [st EXCEPT !.arguments = Append(@, FunctionArgument(st)),
               !.current_argument_name = <<>>,
               !.current_argument_type = None,
               !.current_argument_assignment = None]

\* The flush of the accumulated argument into arguments (group 0) or
\* super_arguments (group 1); a later group is invalid syntax.
PushArgument(st) ==
    IF st.parentheses_count = 0
    THEN [st EXCEPT !.arguments = Append(@, FunctionArgument(st)),
                    !.current_argument_name = <<>>,
                    !.current_argument_type = None,
                    !.current_argument_assignment = None]
    ELSE IF st.parentheses_count = 1
    THEN [st EXCEPT !.super_arguments =
                        Some(Append(UnwrapOr(@, <<>>), FunctionArgument(st))),
                    !.current_argument_name = <<>>,
                    !.current_argument_type = None,
                    !.current_argument_assignment = None]
    ELSE [st EXCEPT !.err = "Invalid syntax"]

\* The ')' arm after its flush: at depth 0 the group is over.
CloseParenthesis(pushed, d) ==
    IF pushed.err # NoError THEN pushed
    ELSE IF d = 0
    THEN [pushed EXCEPT !.depth = d, !.side = "Invalid", !.parentheses_count = @ + 1]
    ELSE [pushed EXCEPT !.depth = d]

\* One character of parse_function's scan, the match arms in source order.
FunctionChar(st, c) ==
    IF IsWhitespace(c) THEN st
    ELSE IF st.finished THEN [st EXCEPT !.err = "Invalid syntax"]
    ELSE IF c = "("
    THEN IF st.parentheses_count < 2 THEN [st EXCEPT !.depth = @ + 1]
         ELSE [st EXCEPT !.err = "Invalid syntax"]
    ELSE IF c = ")"
    THEN CloseParenthesis(IF st.depth - 1 = 0 /\ st.current_argument_name # <<>>
                          THEN PushArgument(st) ELSE st,
                          st.depth - 1)
    ELSE IF c = "." /\ st.depth = 0 /\ st.name = <<"_", "i", "n", "i", "t">>
                    /\ st.parentheses_count = 1
    THEN [st EXCEPT !.side = "Name"]
    ELSE IF c = "." /\ st.depth = 0 THEN [st EXCEPT !.err = "Invalid syntax"]
    ELSE IF c = ":" /\ st.depth = 0 THEN [st EXCEPT !.finished = TRUE]
    ELSE IF c = ":"
    THEN [st EXCEPT !.side = "Type", !.current_argument_type = Some(<<>>)]
    ELSE IF c = "," THEN PushArgument(st)
    ELSE IF c = "-" /\ st.depth = 0 THEN st
    ELSE IF c = ">"
    THEN IF st.last_char = Some("-") THEN [st EXCEPT !.side = "Type"]
         ELSE [st EXCEPT !.err = "Invalid syntax"]
    ELSE IF c = "=" /\ st.depth = 1 /\ st.side # "Assignment"
    THEN [st EXCEPT !.side = "Assignment"]
    ELSE IF st.depth = 0 /\ st.side = "Name"
    THEN [st EXCEPT !.name = Append(@, c)]
    ELSE IF st.depth = 0 /\ st.side = "Type"
    THEN [st EXCEPT !.return_type = Some(Append(UnwrapOr(@, <<>>), c))]
    ELSE IF st.side = "Name"
    THEN [st EXCEPT !.current_argument_name = Append(@, c)]
    ELSE IF st.side = "Type"
    THEN [st EXCEPT !.current_argument_type =
                        IF @ = None THEN None ELSE Some(Append(@[1], c))]
    ELSE IF st.side = "Assignment"
    THEN [st EXCEPT !.current_argument_assignment =
                        Some(Append(UnwrapOr(@, <<>>), c))]
    ELSE [st EXCEPT !.err = "Invalid syntax"]

RECURSIVE FunctionScan(_, _, _)
FunctionScan(line, i, st) ==
    IF i > Len(line) \/ st.err # NoError THEN st
    ELSE FunctionScan(line, i + 1,
                      [FunctionChar(st, line[i]) EXCEPT !.last_char = Some(line[i])])

\* parse_function: name, arguments, super_arguments and return_type of the
\* text after "func".
parse_function(line) ==
    FunctionScan(line, 1,
        [err |-> NoError, finished |-> FALSE, depth |-> 0,
         parentheses_count |-> 0, side |-> "Name", last_char |-> None,
         current_argument_name |-> <<>>, current_argument_type |-> None,
         current_argument_assignment |-> None,
         name |-> <<>>, arguments |-> <<>>, super_arguments |-> None,
         return_type |-> None])

\* ------------------------------------------------------------------------
\* The symbol model, the scope frames and the flattening of a frame
\* ------------------------------------------------------------------------

\* ClassFrame::default()
EmptyClassFrame ==
    [classes |-> <<>>, signals |-> <<>>, functions |-> <<>>, variables |-> <<>>,
     constants |-> <<>>, exports |-> <<>>, enums |-> <<>>]

\* EnumFrame::default()
EmptyEnumFrame == [last_value |-> 0, values |-> <<>>]

Symbol(name, arg, text) == [name |-> name, arg |-> arg, text |-> text]

DocumentationEntry(entry_type, symbols) ==
    IF symbols = <<>> THEN <<>>
    ELSE <<[entry_type |-> entry_type, symbols |-> symbols]>>

\* add_entries with the pushes in another order, the variables first: what
\* the order of the seven `if` blocks decides.
add_entries_variables_first(frame) ==
    DocumentationEntry("VAR", frame.variables)
    \o DocumentationEntry("CLASS", frame.classes)
    \o DocumentationEntry("ENUM", frame.enums)
    \o DocumentationEntry("SIGNAL", frame.signals)
    \o DocumentationEntry("EXPORT", frame.exports)
    \o DocumentationEntry("CONST", frame.constants)
    \o DocumentationEntry("FUNC", frame.functions)

\* add_entries: one entry per non-empty bucket, in the order the code pushes.
add_entries(frame) ==
    DocumentationEntry("CLASS", frame.classes)
    \o DocumentationEntry("ENUM", frame.enums)
    \o DocumentationEntry("SIGNAL", frame.signals)
    \o DocumentationEntry("EXPORT", frame.exports)
    \o DocumentationEntry("CONST", frame.constants)
    \o DocumentationEntry("FUNC", frame.functions)
    \o DocumentationEntry("VAR", frame.variables)

\* The three shapes of Mode.
NormalMode(frame) == [tag |-> "Normal", frame |-> frame]
EnumMode(name, enum_frame) == [tag |-> "Enum", name |-> name, enum_frame |-> enum_frame]
ClassMode(name, old_indent, indent, frame, comments) ==
    [tag |-> "Class", name |-> name, old_indent |-> old_indent, indent |-> indent,
     frame |-> frame, comments |-> comments]

\* The first constant named raw in one frame's constants, as a 0/1 sequence.
FrameConstant(frame, raw) ==
    LET Hits == {i \in 1..Len(frame.constants) : frame.constants[i].name = raw}
    IN  IF Hits = {} THEN <<>>
        ELSE <<frame.constants[CHOOSE i \in Hits : \A j \in Hits : i <= j]>>

\* get_constant: the assignment text of the first constant named raw, looked
\* up from the top of the given stack downwards, Enum frames skipped.
RECURSIVE get_constant(_, _)
get_constant(stack, raw) ==
    IF stack = <<>> THEN None
    ELSE LET top == stack[Len(stack)]
             below == SubSeq(stack, 1, Len(stack) - 1)
             hit == IF top.tag = "Enum" THEN <<>> ELSE FrameConstant(top.frame, raw)
         IN  IF hit # <<>> THEN Unwrap(hit[1].arg).assignment
             ELSE get_constant(below, raw)

\* The combination without settings.show_prefixed: the name rule alone.
Visible_without_setting(name, show_prefixed, override_visibility) ==
    ~StartsWith(name, <<"_">>) /\ UnwrapOr(override_visibility, TRUE)

\* The name rule and the pending directive, as the code combines them for
\* signal, func, var, const, export, enum and enum values.
Visible(name, show_prefixed, override_visibility) ==
    (~StartsWith(name, <<"_">>) \/ show_prefixed)
    /\ UnwrapOr(override_visibility, TRUE)

\* The constant's text parsed as an integer (v.parse()).
ConstantValue(parsed) ==
    IF IsSome(parsed) THEN [err |-> NoError, value |-> Unwrap(parsed)]
    ELSE [err |-> "constant is not a valid enum value", value |-> 0]

\* An explicit value: res is raw.parse(), val is get_constant(stack, raw).
ExplicitValue(res, val) ==
    IF IsSome(res) THEN [err |-> NoError, value |-> Unwrap(res)]
    ELSE IF IsSome(val) THEN ConstantValue(ParseInt(Unwrap(val)))
    ELSE [err |-> "not a valid enum value", value |-> 0]

\* The value of one enum element without the running last_value: an element
\* that gives no value gets 0.
EnumElementValue_from_zero(stack, pieces, last_value) ==
    IF Len(pieces) < 2 THEN [err |-> NoError, value |-> 0]
    ELSE ExplicitValue(ParseInt(Trim(pieces[2])), get_constant(stack, Trim(pieces[2])))

\* The value of one enum element: the explicit text parsed as an integer, or
\* the constant of that name parsed as an integer, or last_value.
EnumElementValue(stack, pieces, last_value) ==
    IF Len(pieces) < 2 THEN [err |-> NoError, value |-> last_value]
    ELSE ExplicitValue(ParseInt(Trim(pieces[2])), get_constant(stack, Trim(pieces[2])))

RECURSIVE EnumElements(_, _, _, _, _, _, _)
RECURSIVE EnumElement(_, _, _, _, _, _, _, _, _)

\* One element that has a name: its value v moves last_value on, and a
\* visible element is pushed with the buffered comments.
EnumElement(elems, i, stack, enum_frame, show_prefixed, override_visibility, comment_buffer, name, v) ==
    IF v.err # NoError
    THEN [err |-> v.err, enum_frame |-> enum_frame, comment_buffer |-> comment_buffer]
    ELSE IF Visible(name, show_prefixed, override_visibility)
    THEN EnumElements(elems, i + 1, stack,
                      [last_value |-> v.value + 1,
                       values |-> Append(enum_frame.values,
                                         [name |-> name, value |-> v.value,
                                          text |-> comment_buffer])],
                      show_prefixed, override_visibility, <<>>)
    ELSE EnumElements(elems, i + 1, stack,
                      [last_value |-> v.value + 1, values |-> enum_frame.values],
                      show_prefixed, override_visibility, comment_buffer)

EnumElements(elems, i, stack, enum_frame, show_prefixed, override_visibility, comment_buffer) ==
    IF i > Len(elems)
    THEN [err |-> NoError, enum_frame |-> enum_frame, comment_buffer |-> comment_buffer]
    ELSE IF Trim(Split(elems[i], "=")[1]) = <<>>
    THEN EnumElements(elems, i + 1, stack, enum_frame, show_prefixed,
                      override_visibility, comment_buffer)
    ELSE EnumElement(elems, i, stack, enum_frame, show_prefixed, override_visibility,
                     comment_buffer, Trim(Split(elems[i], "=")[1]),
                     EnumElementValue(stack, Split(elems[i], "="),
                                      enum_frame.last_value))

\* parse_enum: the comma-separated elements of values added to enum_frame.
parse_enum(show_prefixed, stack, values, enum_frame, override_visibility, comment_buffer) ==
    EnumElements(Split(values, ","), 1, stack, enum_frame, show_prefixed,
                 override_visibility, comment_buffer)

\* ------------------------------------------------------------------------
\* parse_class_content: the dispatch on the leading keyword
\* ------------------------------------------------------------------------

KwClass == <<"c", "l", "a", "s", "s", " ">>
KwSignal == <<"s", "i", "g", "n", "a", "l", " ">>
KwFunc == <<"f", "u", "n", "c", " ">>
KwVar == <<"v", "a", "r", " ">>
KwConst == <<"c", "o", "n", "s", "t", " ">>
KwExport == <<"e", "x", "p", "o", "r", "t">>
KwEnum == <<"e", "n", "u", "m">>
VarToken == <<" ", "v", "a", "r", " ">>

Content(err, frame, comment_buffer, new_frame) ==
    [err |-> err, frame |-> frame, comment_buffer |-> comment_buffer,
     new_frame |-> new_frame]

VariableArgs(a) ==
    Some([tag |-> "VariableArgs", value_type |-> a.value_type,
          assignment |-> a.assignment, setter |-> a.setter, getter |-> a.getter])

\* class <name>: a visible header opens a Class scope and takes the comments.
OpenClass(name, indent, frame, comment_buffer, show_prefixed) ==
    IF ~StartsWith(name, <<"_">>) \/ show_prefixed
    THEN Content(NoError, frame, <<>>,
                 Some(ClassMode(name, indent, None, EmptyClassFrame, comment_buffer)))
    ELSE Content(NoError, frame, comment_buffer, None)

ClassHeader(line, indent, frame, comment_buffer, show_prefixed) ==
    OpenClass(Trim(Split(Drop(line, 5), ":")[1]), indent, frame, comment_buffer,
              show_prefixed)

\* signal <name>: a visible signal is pushed with the buffered comments.
AddSignal(name, frame, comment_buffer, show_prefixed, override_visibility) ==
    IF Visible(name, show_prefixed, override_visibility)
    THEN Content(NoError,
                 [frame EXCEPT !.signals = Append(@, Symbol(name, None, comment_buffer))],
                 <<>>, None)
    ELSE Content(NoError, frame, comment_buffer, None)

SignalDeclaration(line, frame, comment_buffer, show_prefixed, override_visibility) ==
    AddSignal(Trim(Drop(line, 6)), frame, comment_buffer, show_prefixed,
              override_visibility)

FunctionArgs(f) ==
    Some([tag |-> "FunctionArgs", arguments |-> f.arguments,
          super_arguments |-> f.super_arguments, return_type |-> f.return_type])

\* func ...: f is what parse_function made of the signature.
AddFunction(f, frame, comment_buffer, show_prefixed, override_visibility) ==
    IF f.err # NoError THEN Content(f.err, frame, comment_buffer, None)
    ELSE IF Visible(f.name, show_prefixed, override_visibility)
    THEN Content(NoError,
                 [frame EXCEPT !.functions =
                      Append(@, Symbol(f.name, FunctionArgs(f), comment_buffer))],
                 <<>>, None)
    ELSE Content(NoError, frame, comment_buffer, None)

FuncDeclaration(line, frame, comment_buffer, show_prefixed, override_visibility) ==
    AddFunction(parse_function(Drop(line, 4)), frame, comment_buffer, show_prefixed,
                override_visibility)

\* var ...: a is what parse_assignment made of the declaration.
AddVariable(a, frame, comment_buffer, show_prefixed, override_visibility) ==
    IF a.err # NoError THEN Content(a.err, frame, comment_buffer, None)
    ELSE IF Visible(a.name, show_prefixed, override_visibility)
    THEN Content(NoError,
                 [frame EXCEPT !.variables =
                      Append(@, Symbol(a.name, VariableArgs(a), comment_buffer))],
                 <<>>, None)
    ELSE Content(NoError, frame, comment_buffer, None)

VarDeclaration(line, frame, comment_buffer, show_prefixed, override_visibility) ==
    AddVariable(parse_assignment(Drop(line, 4)), frame, comment_buffer,
                show_prefixed, override_visibility)

\* const ...: a is what parse_assignment made of the declaration.
AddConstant(a, frame, comment_buffer, show_prefixed, override_visibility) ==
    IF a.err # NoError THEN Content(a.err, frame, comment_buffer, None)
    ELSE IF Visible(a.name, show_prefixed, override_visibility)
    THEN Content(NoError,
                 [frame EXCEPT !.constants =
                      Append(@, Symbol(a.name, VariableArgs(a), comment_buffer))],
                 <<>>, None)
    ELSE Content(NoError, frame, comment_buffer, None)

ConstDeclaration(line, frame, comment_buffer, show_prefixed, override_visibility) ==
    AddConstant(parse_assignment(Drop(line, 6)), frame, comment_buffer,
                show_prefixed, override_visibility)

\* The hint between the parentheses: its first element and the rest.
ExportHint(hint) == [ok |-> TRUE, export_type |-> Some(<<hint[1], Tail(hint)>>)]

\* The export hint: Some(<<type, options>>), None, or invalid syntax, by the
\* places of '(' and ')' relative to " var ".
ExportType(line, pos, open, close) ==
    IF open # 0 /\ close # 0 /\ open < close /\ close < pos
    THEN ExportHint(TrimAll(Split(SubSeq(line, open + 1, close - 1), ",")))
    ELSE IF open # 0 /\ close # 0 /\ open > pos /\ close > pos
    THEN [ok |-> TRUE, export_type |-> None]
    ELSE IF open # 0 /\ close = 0 /\ open > pos
    THEN [ok |-> TRUE, export_type |-> None]
    ELSE IF open = 0 /\ close # 0 /\ close > pos
    THEN [ok |-> TRUE, export_type |-> None]
    ELSE IF open = 0 /\ close = 0
    THEN [ok |-> TRUE, export_type |-> None]
    ELSE [ok |-> FALSE, export_type |-> None]

\* ExportArgs with `value_type.or(export_type)`: the annotation before the hint.
ExportArgs_annotation_first(export_type, a) ==
    Some([tag |-> "ExportArgs",
          value_type |-> IF IsSome(a.value_type) THEN a.value_type
                         ELSE IF IsSome(export_type) THEN Some(Unwrap(export_type)[1])
                         ELSE None,
          options |-> IF IsSome(export_type) THEN Unwrap(export_type)[2] ELSE <<>>,
          assignment |-> a.assignment, setter |-> a.setter, getter |-> a.getter])

ExportArgs(export_type, a) ==
    Some([tag |-> "ExportArgs",
          value_type |-> IF IsSome(export_type) THEN Some(Unwrap(export_type)[1])
                         ELSE a.value_type,
          options |-> IF IsSome(export_type) THEN Unwrap(export_type)[2] ELSE <<>>,
          assignment |-> a.assignment, setter |-> a.setter, getter |-> a.getter])

\* export ... var ...: et is the hint, a the parsed tail after " var ".
AddExport(et, a, frame, comment_buffer, show_prefixed, override_visibility) ==
    IF ~et.ok THEN Content("Invalid syntax", frame, comment_buffer, None)
    ELSE IF a.err # NoError THEN Content(a.err, frame, comment_buffer, None)
    ELSE IF (StartsWith(a.name, <<"_">>) /\ ~show_prefixed)
            \/ ~UnwrapOr(override_visibility, TRUE)
    THEN Content(NoError, frame, comment_buffer, None)
    ELSE Content(NoError,
                 [frame EXCEPT !.exports =
                      Append(@, Symbol(a.name, ExportArgs(et.export_type, a),
                                       comment_buffer))],
                 <<>>, None)

ExportAt(line, pos, frame, comment_buffer, show_prefixed, override_visibility) ==
    IF pos = 0 THEN Content("Invalid syntax", frame, comment_buffer, None)
    ELSE AddExport(ExportType(line, pos, IndexOf(line, "("), IndexOf(line, ")")),
                   parse_assignment(Drop(line, pos + 4)), frame, comment_buffer,
                   show_prefixed, override_visibility)

ExportDeclaration(line, frame, comment_buffer, show_prefixed, override_visibility) ==
    ExportAt(line, IndexOfStr(line, VarToken), frame, comment_buffer, show_prefixed,
             override_visibility)

\* The enum whose header line was parsed into e: a '}' on the line (end # 0)
\* completes the Enum symbol, otherwise an Enum scope opens.
AddEnum(e, enum_name, end, frame, comment_buffer) ==
    IF e.err # NoError THEN Content(e.err, frame, comment_buffer, None)
    ELSE IF end # 0
    THEN Content(NoError,
                 [frame EXCEPT !.enums =
                      Append(@, Symbol(enum_name,
                                       Some([tag |-> "EnumArgs",
                                             values |-> e.enum_frame.values]),
                                       e.comment_buffer))],
                 <<>>, None)
    ELSE Content(NoError, frame, e.comment_buffer,
                 Some(EnumMode(enum_name, e.enum_frame)))

\* enum <name> { ...: pos and end are the places of '{' and '}'.  A suppressed
\* enum returns before its body is looked at.  The stack handed to parse_enum
\* is parsing_mode as the caller holds it, that is without the mode whose
\* frame is being filled.
EnumAt(line, pos, end, enum_name, frame, comment_buffer, show_prefixed, override_visibility, parsing_mode) ==
    IF pos = 0 THEN Content("Invalid Syntax", frame, comment_buffer, None)
    ELSE IF pos < 6 THEN Content("slice panic", frame, comment_buffer, None)
    ELSE IF (StartsWith(enum_name, <<"_">>) /\ ~show_prefixed)
            \/ ~UnwrapOr(override_visibility, TRUE)
    THEN Content(NoError, frame, comment_buffer, None)
    ELSE IF end # 0 /\ end < pos THEN Content("slice panic", frame, comment_buffer, None)
    ELSE AddEnum(parse_enum(show_prefixed, parsing_mode,
                            IF end # 0 THEN SubSeq(line, pos + 1, end - 1)
                            ELSE Drop(line, pos),
                            EmptyEnumFrame, override_visibility, comment_buffer),
                 enum_name, end, frame, comment_buffer)

EnumDeclaration(line, frame, comment_buffer, show_prefixed, override_visibility, parsing_mode) ==
    EnumAt(line, IndexOf(line, "{"), IndexOf(line, "}"),
           Trim(SubSeq(line, 6, IndexOf(line, "{") - 1)), frame, comment_buffer,
           show_prefixed, override_visibility, parsing_mode)

\* parse_class_content: err, the frame and comment buffer it leaves, and the
\* scope to push (new_frame), if any.
parse_class_content(line, indent, frame, comment_buffer, show_prefixed, override_visibility, parsing_mode) ==
    IF StartsWith(line, KwClass)
    THEN ClassHeader(line, indent, frame, comment_buffer, show_prefixed)
    ELSE IF StartsWith(line, KwSignal)
    THEN SignalDeclaration(line, frame, comment_buffer, show_prefixed, override_visibility)
    ELSE IF StartsWith(line, KwFunc)
    THEN FuncDeclaration(line, frame, comment_buffer, show_prefixed, override_visibility)
    ELSE IF StartsWith(line, KwVar)
    THEN VarDeclaration(line, frame, comment_buffer, show_prefixed, override_visibility)
    ELSE IF StartsWith(line, KwConst)
    THEN ConstDeclaration(line, frame, comment_buffer, show_prefixed, override_visibility)
    ELSE IF StartsWith(line, KwExport)
    THEN ExportDeclaration(line, frame, comment_buffer, show_prefixed, override_visibility)
    ELSE IF StartsWith(line, KwEnum)
    THEN EnumDeclaration(line, frame, comment_buffer, show_prefixed,
                         override_visibility, parsing_mode)
    ELSE Content(NoError, frame, comment_buffer, None)

\* ------------------------------------------------------------------------
\* parse_line: one call on the mode popped from the scope stack
\* ------------------------------------------------------------------------

Top(stack) == stack[Len(stack)]
Pop(stack) == SubSeq(stack, 1, Len(stack) - 1)

\* stack.last_mut() matched against Normal alone: a Class beneath is refused.
HasParentFrame_root_only(stack) == stack # <<>> /\ Top(stack).tag = "Normal"

\* stack.last_mut() matched against Normal | Class: the frame a closing scope
\* is attached to.  An Enum or no frame there is one of the parser's panics.
HasParentFrame(stack) == stack # <<>> /\ Top(stack).tag \in {"Normal", "Class"}

LineResult(err, stack, recurse, comment_buffer) ==
    [err |-> err, stack |-> stack, recurse |-> recurse,
     comment_buffer |-> comment_buffer]

EnumArgs(values) == Some([tag |-> "EnumArgs", values |-> values])

\* The enum line parsed into e: a '}' (end # 0) completes the Enum symbol on
\* the frame beneath, otherwise the scope is pushed back.
EnumLineEnd(mode, stack, end, e, comment_buffer) ==
    IF e.err # NoError THEN LineResult(e.err, stack, FALSE, comment_buffer)
    ELSE IF end # 0
    THEN IF HasParentFrame(stack)
         THEN LineResult(NoError,
                  [stack EXCEPT ![Len(stack)].frame.enums =
                       Append(@, Symbol(mode.name, EnumArgs(e.enum_frame.values),
                                        e.comment_buffer))],
                  FALSE, <<>>)
         ELSE LineResult("panic", stack, FALSE, comment_buffer)
    ELSE LineResult(NoError,
                    Append(stack, [mode EXCEPT !.enum_frame = e.enum_frame]),
                    FALSE, e.comment_buffer)

\* Mode::Enum: the line up to its first '}' is enum content.
EnumLineAt(mode, stack, line, end, show_prefixed, override_visibility, comment_buffer) ==
    EnumLineEnd(mode, stack, end,
                parse_enum(show_prefixed, stack,
                           IF end # 0 THEN Take(line, end - 1) ELSE line,
                           mode.enum_frame, override_visibility, comment_buffer),
                comment_buffer)

EnumLine(mode, stack, line, show_prefixed, override_visibility, comment_buffer) ==
    EnumLineAt(mode, stack, line, IndexOf(line, "}"), show_prefixed,
               override_visibility, comment_buffer)

\* The scope's frame filled by parse_class_content, pushed back, then the
\* scope the line opened, if any.
PushContent(mode, stack, c) ==
    IF c.err # NoError THEN LineResult(c.err, stack, FALSE, c.comment_buffer)
    ELSE LineResult(NoError,
                    Append(stack, [mode EXCEPT !.frame = c.frame])
                        \o (IF IsSome(c.new_frame) THEN <<Unwrap(c.new_frame)>> ELSE <<>>),
                    FALSE, c.comment_buffer)

\* The dedent branch: the class flattened and attached to the frame beneath
\* as a Class symbol, after which parse_line runs again on that frame.
CloseClass(mode, stack, comment_buffer) ==
    LET sym == Symbol(mode.name,
                      Some([tag |-> "ClassArgs", entries |-> add_entries(mode.frame)]),
                      mode.comments)
    IN  IF HasParentFrame(stack)
        THEN LineResult(NoError,
                 [stack EXCEPT ![Len(stack)].frame.classes = Append(@, sym)],
                 TRUE, comment_buffer)
        ELSE LineResult("panic", stack, FALSE, comment_buffer)

\* Mode::Class without the `Indented block expected` test: the first line
\* fixes the indentation wherever it stands.
ClassLine_any_first_line(mode, stack, line, show_prefixed, override_visibility, comment_buffer, indentation_level) ==
    LET indent == IF mode.indent = None THEN indentation_level ELSE Unwrap(mode.indent)
        established == [mode EXCEPT !.indent = Some(indent)]
    IN  IF indentation_level = indent
        THEN PushContent(established, stack,
                 parse_class_content(Trim(line), indentation_level, mode.frame,
                                     comment_buffer, show_prefixed,
                                     override_visibility, stack))
        ELSE IF indentation_level < indent
        THEN CloseClass(established, stack, comment_buffer)
        ELSE LineResult(NoError, stack, FALSE, comment_buffer)

\* Mode::Class: the first line fixes the indentation; a line at it is content,
\* a line below it closes the class, and a line above it matches neither
\* branch, so the popped mode is not pushed back.
ClassLine(mode, stack, line, show_prefixed, override_visibility, comment_buffer, indentation_level) ==
    LET indent == IF mode.indent = None THEN indentation_level ELSE Unwrap(mode.indent)
        established == [mode EXCEPT !.indent = Some(indent)]
    IN  IF mode.indent = None /\ ~(indentation_level > mode.old_indent)
        THEN LineResult("Indented block expected", stack, FALSE, comment_buffer)
        ELSE IF indentation_level = indent
        THEN PushContent(established, stack,
                 parse_class_content(Trim(line), indentation_level, mode.frame,
                                     comment_buffer, show_prefixed,
                                     override_visibility, stack))
        ELSE IF indentation_level < indent
        THEN CloseClass(established, stack, comment_buffer)
        ELSE LineResult(NoError, stack, FALSE, comment_buffer)

\* Mode::Normal with the line trimmed as the Class arm trims it.
NormalLine_trimmed(mode, stack, line, show_prefixed, override_visibility, comment_buffer, indentation_level) ==
    PushContent(mode, stack,
        parse_class_content(Trim(line), indentation_level, mode.frame, comment_buffer,
                            show_prefixed, override_visibility, stack))

\* Mode::Normal: the untrimmed line is content of the root frame.
NormalLine(mode, stack, line, show_prefixed, override_visibility, comment_buffer, indentation_level) ==
    PushContent(mode, stack,
        parse_class_content(line, indentation_level, mode.frame, comment_buffer,
                            show_prefixed, override_visibility, stack))

\* parse_line on mode (the popped top) and stack (the rest).  recurse says
\* that the call ends in the recursive parse_line on stack.pop().
parse_line(mode, stack, line, show_prefixed, override_visibility, comment_buffer, indentation_level) ==
    IF mode.tag = "Enum"
    THEN EnumLine(mode, stack, line, show_prefixed, override_visibility, comment_buffer)
    ELSE IF mode.tag = "Class"
    THEN ClassLine(mode, stack, line, show_prefixed, override_visibility,
                   comment_buffer, indentation_level)
    ELSE NormalLine(mode, stack, line, show_prefixed, override_visibility,
                    comment_buffer, indentation_level)

\* ------------------------------------------------------------------------
\* The end of parse_file: the scopes still open are closed from the top
\* ------------------------------------------------------------------------

\* The end-of-file close of a class without the add_entries call: the Class
\* symbol is attached with no entries.
EofCloseClass_without_entries(mode, stack) ==
    [stack EXCEPT ![Len(stack)].frame.classes =
         Append(@, Symbol(mode.name, Some([tag |-> "ClassArgs", entries |-> <<>>]),
                          mode.comments))]

\* The Class arm of the loop at the end of parse_file.
EofCloseClass(mode, stack) ==
    LET sym == Symbol(mode.name,
                      Some([tag |-> "ClassArgs", entries |-> add_entries(mode.frame)]),
                      mode.comments)
    IN  [stack EXCEPT ![Len(stack)].frame.classes = Append(@, sym)]

\* The Enum arm of the loop at the end of parse_file.
EofCloseEnum(mode, stack, comment_buffer) ==
    LET sym == Symbol(mode.name,
                      Some([tag |-> "EnumArgs", values |-> mode.enum_frame.values]),
                      comment_buffer)
    IN  [stack EXCEPT ![Len(stack)].frame.enums = Append(@, sym)]

\* ------------------------------------------------------------------------
\* parse_file as a state machine
\* ------------------------------------------------------------------------

VARIABLES
    show_prefixed,        \* settings.show_prefixed
    pc,                   \* where parse_file stands: "next", "backslash", "paren",
                          \* "parse_line", "eof" or "done"
    lineno,               \* FileIterator.lineno: physical lines read so far
    parsing_mode,         \* the scope stack, the root frame first
    comment_buffer,       \* comment lines not yet given to a symbol
    override_visibility,  \* the pending [Show] / [Hide] directive
    open_parentheses,     \* the bracket stack find keeps across lines
    full_line,            \* the logical line assembled so far
    partial_line,         \* the physical line a backslash continues
    result                \* None while parsing, then Some(Ok(..) | Err(..))

vars == <<show_prefixed, pc, lineno, parsing_mode, comment_buffer,
          override_visibility, open_parentheses, full_line, partial_line, result>>

ShowDirective == <<"[", "S", "h", "o", "w", "]">>
HideDirective == <<"[", "H", "i", "d", "e", "]">>
WarningIgnore ==
    <<"w", "a", "r", "n", "i", "n", "g", "-", "i", "g", "n", "o", "r", "e", ":">>

Ok(entries) == [ok |-> TRUE, entries |-> entries]
Err(kind, line_number) == [ok |-> FALSE, err |-> kind, lineno |-> line_number]

Init ==
    /\ show_prefixed \in BOOLEAN
    /\ pc = "next"
    /\ lineno = 0
    /\ parsing_mode = <<NormalMode(EmptyClassFrame)>>
    /\ comment_buffer = <<>>
    /\ override_visibility = None
    /\ open_parentheses = <<>>
    /\ full_line = <<>>
    /\ partial_line = <<>>
    /\ result = None

\* A `?` that leaves parse_file with an error.
Fail(kind) ==
    /\ pc' = "done"
    /\ result' = Some(Err(kind, lineno'))
    /\ UNCHANGED <<show_prefixed, parsing_mode, comment_buffer, override_visibility,
                   open_parentheses, full_line, partial_line>>

\* The directive a comment sets, and the buffer it is appended to.
DirectiveAfter(comment, current) ==
    IF comment = ShowDirective THEN Some(TRUE)
    ELSE IF comment = HideDirective THEN Some(FALSE)
    ELSE current

\* The push without its `starts_with("warning-ignore:")` test.
BufferAfter_every_comment(comment, buffer) == Append(buffer, comment)

BufferAfter(comment, buffer) ==
    IF StartsWith(comment, WarningIgnore) THEN buffer ELSE Append(buffer, comment)

\* The statement loop after get_comment (gc) on the physical text: the
\* directive and the buffer take the comment, the code joins the logical line,
\* and an open '(' asks for another line; a complete line that is not blank
\* goes to parse_line.
AbsorbComment(gc) ==
    IF gc.err # NoError THEN Fail(gc.err)
    ELSE /\ override_visibility' =
               IF IsSome(gc.comment)
               THEN DirectiveAfter(Unwrap(gc.comment), override_visibility)
               ELSE override_visibility
         /\ comment_buffer' =
               IF IsSome(gc.comment)
               THEN BufferAfter(Unwrap(gc.comment), comment_buffer)
               ELSE comment_buffer
         /\ open_parentheses' = gc.parentheses
         /\ partial_line' = <<>>
         /\ IF Contains(gc.parentheses, "(")
            THEN pc' = "paren" /\ full_line' = full_line \o gc.code
            ELSE IF Trim(full_line \o gc.code) # <<>>
            THEN pc' = "parse_line" /\ full_line' = full_line \o gc.code
            ELSE pc' = "next" /\ full_line' = <<>>
         /\ UNCHANGED <<show_prefixed, parsing_mode, result>>

\* The body of the statement loop from its backslash test on, run on the
\* physical text partial: it stops at the next lines.next() or at parse_line.
Absorb(partial) ==
    IF EndsWith(partial, <<"\\">>) /\ ~Contains(partial, "#")
    THEN /\ pc' = "backslash"
         /\ partial_line' = Take(partial, Len(partial) - 1)
         /\ UNCHANGED <<show_prefixed, parsing_mode, comment_buffer,
                        override_visibility, open_parentheses, full_line, result>>
    ELSE AbsorbComment(get_comment(partial, open_parentheses))

\* while let Some(current_line) = lines.next(): a statement starts.
ReadLine(l) ==
    /\ pc = "next"
    /\ lineno' = lineno + 1
    /\ Absorb(l)

\* The read after a trailing backslash without the `+=`: the next line
\* replaces what was read before it.
ReadAfterBackslash_not_joined(l) ==
    /\ pc = "backslash"
    /\ lineno' = lineno + 1
    /\ Absorb(Trim(l))

\* lines.next() after a trailing backslash: the next line, trimmed, is appended.
ReadAfterBackslash(l) ==
    /\ pc = "backslash"
    /\ lineno' = lineno + 1
    /\ Absorb(partial_line \o Trim(l))

\* lines.next() while a '(' is open: the next line, trimmed, continues.
ReadInParentheses(l) ==
    /\ pc = "paren"
    /\ lineno' = lineno + 1
    /\ Absorb(Trim(l))

\* lines.next() returns None at the head of the statement loop.
EndOfInput ==
    /\ pc = "next"
    /\ pc' = "eof"
    /\ UNCHANGED <<show_prefixed, lineno, parsing_mode, comment_buffer,
                   override_visibility, open_parentheses, full_line, partial_line,
                   result>>

\* lines.next() returns None inside a statement.
UnexpectedEof ==
    /\ pc \in {"backslash", "paren"}
    /\ lineno' = lineno
    /\ Fail(IF pc = "backslash" THEN "Unexpected eof, expected newline"
            ELSE "Unexpected eof, mismatched parentheses")

\* AfterLine without `override_visibility = None`: the directive outlives
\* the statement.
AfterLine_keeps_directive(r) ==
    IF r.err # NoError
    THEN lineno' = lineno /\ Fail(r.err)
    ELSE IF r.recurse
    THEN /\ parsing_mode' = r.stack
         /\ comment_buffer' = r.comment_buffer
         /\ UNCHANGED <<show_prefixed, pc, lineno, override_visibility,
                        open_parentheses, full_line, partial_line, result>>
    ELSE /\ parsing_mode' = r.stack
         /\ comment_buffer' = <<>>
         /\ pc' = "next"
         /\ full_line' = <<>>
         /\ UNCHANGED <<show_prefixed, lineno, override_visibility,
                        open_parentheses, partial_line, result>>

\* What parse_file does with the outcome r of one parse_line call: an error
\* ends the parse, the recursive call keeps the line, and a return clears
\* the comment buffer and the directive.
AfterLine(r) ==
    IF r.err # NoError
    THEN lineno' = lineno /\ Fail(r.err)
    ELSE IF r.recurse
    THEN /\ parsing_mode' = r.stack
         /\ comment_buffer' = r.comment_buffer
         /\ UNCHANGED <<show_prefixed, pc, lineno, override_visibility,
                        open_parentheses, full_line, partial_line, result>>
    ELSE /\ parsing_mode' = r.stack
         /\ comment_buffer' = <<>>
         /\ override_visibility' = None
         /\ pc' = "next"
         /\ full_line' = <<>>
         /\ UNCHANGED <<show_prefixed, lineno, open_parentheses, partial_line, result>>

\* One call of parse_line on the assembled line and the mode on top of the
\* scope stack.
ParseLine ==
    /\ pc = "parse_line"
    /\ AfterLine(parse_line(Top(parsing_mode), Pop(parsing_mode), full_line,
                            show_prefixed, override_visibility, comment_buffer,
                            get_indentation_level(full_line)))

\* One round of `while parsing_mode.len() > 0`: a Class or Enum on top is
\* attached to the frame beneath, the Normal frame is flattened and returned.
CloseAtEof ==
    /\ pc = "eof"
    /\ LET mode == Top(parsing_mode)
           stack == Pop(parsing_mode)
       IN  IF mode.tag = "Normal"
           THEN /\ pc' = "done"
                /\ result' = Some(Ok(add_entries(mode.frame)))
                /\ parsing_mode' = stack
                /\ UNCHANGED comment_buffer
           ELSE IF ~HasParentFrame(stack)
           THEN /\ pc' = "done"
                /\ result' = Some(Err("panic", lineno))
                /\ UNCHANGED <<parsing_mode, comment_buffer>>
           ELSE IF mode.tag = "Class"
           THEN /\ parsing_mode' = EofCloseClass(mode, stack)
                /\ UNCHANGED <<pc, result, comment_buffer>>
           ELSE /\ parsing_mode' = EofCloseEnum(mode, stack, comment_buffer)
                /\ comment_buffer' = <<>>
                /\ UNCHANGED <<pc, result>>
    /\ UNCHANGED <<show_prefixed, lineno, override_visibility, open_parentheses,
                   full_line, partial_line>>

\* The parser run on every file of at most max physical lines drawn from lines.
NextOn(lines, max) ==
    \/ \E l \in lines : lineno < max /\ ReadLine(l)
    \/ \E l \in lines : lineno < max /\ ReadAfterBackslash(l)
    \/ \E l \in lines : lineno < max /\ ReadInParentheses(l)
    \/ EndOfInput
    \/ UnexpectedEof
    \/ ParseLine
    \/ CloseAtEof

\* ------------------------------------------------------------------------
\* Spec: nested class and enum scopes
\* ------------------------------------------------------------------------

\* class A:
LineClassA == <<"c", "l", "a", "s", "s", " ", "A", ":">>
\* \tclass B:
LineClassB == <<"\t", "c", "l", "a", "s", "s", " ", "B", ":">>
\* \tvar x
LineVarX == <<"\t", "v", "a", "r", " ", "x">>
\* \t\tsignal s
LineSignalS == <<"\t", "\t", "s", "i", "g", "n", "a", "l", " ", "s">>
\* \t\t\tvar y
LineVarY == <<"\t", "\t", "\t", "v", "a", "r", " ", "y">>
\* var v
LineVarV == <<"v", "a", "r", " ", "v">>
\* \tenum E {
LineEnumE == <<"\t", "e", "n", "u", "m", " ", "E", " ", "{">>
\* \tK }
LineEnumEnd == <<"\t", "K", " ", "}">>
\* (\\
LineOpenContinued == <<"(", "\\">>

\* The physical lines the files of Spec are made of: a class, a class nested
\* in it, content at three depths, a line at the root, an enum that stays
\* open and its end, and a statement that a backslash and a '(' continue.
ScopeLines ==
    {LineClassA, LineClassB, LineVarX, LineSignalS, LineVarY, LineVarV,
     LineEnumE, LineEnumEnd, LineOpenContinued}

Next == NextOn(ScopeLines, MaxLines)

Spec == Init /\ [][Next]_vars

\* ------------------------------------------------------------------------
\* SpecVisibility: every kind of declaration, plain and with a `_` name,
\* behind no directive, behind [Show] and behind [Hide]
\* ------------------------------------------------------------------------

MaxVisibilityLines == 3

\* # [Show]
LineShow == <<"#", " ", "[", "S", "h", "o", "w", "]">>
\* # [Hide]
LineHide == <<"#", " ", "[", "H", "i", "d", "e", "]">>
\* class _P:
LineClassPrefixed == <<"c", "l", "a", "s", "s", " ", "_", "P", ":">>
\* signal t
LineSignalT == <<"s", "i", "g", "n", "a", "l", " ", "t">>
\* signal _t
LineSignalPrefixed == <<"s", "i", "g", "n", "a", "l", " ", "_", "t">>
\* func f():
LineFuncF == <<"f", "u", "n", "c", " ", "f", "(", ")", ":">>
\* func _f():
LineFuncPrefixed == <<"f", "u", "n", "c", " ", "_", "f", "(", ")", ":">>
\* var w
LineVarW == <<"v", "a", "r", " ", "w">>
\* var _w
LineVarPrefixed == <<"v", "a", "r", " ", "_", "w">>
\* const c = 1
LineConstC == <<"c", "o", "n", "s", "t", " ", "c", " ", "=", " ", "1">>
\* const _c = 1
LineConstPrefixed ==
    <<"c", "o", "n", "s", "t", " ", "_", "c", " ", "=", " ", "1">>
\* export var e
LineExportE == <<"e", "x", "p", "o", "r", "t", " ", "v", "a", "r", " ", "e">>
\* export var _e
LineExportPrefixed ==
    <<"e", "x", "p", "o", "r", "t", " ", "v", "a", "r", " ", "_", "e">>
\* enum G { K }
LineEnumG == <<"e", "n", "u", "m", " ", "G", " ", "{", " ", "K", " ", "}">>
\* enum _G { K }
LineEnumPrefixed ==
    <<"e", "n", "u", "m", " ", "_", "G", " ", "{", " ", "K", " ", "}">>
\* enum G { _K }
LineEnumValuePrefixed ==
    <<"e", "n", "u", "m", " ", "G", " ", "{", " ", "_", "K", " ", "}">>

VisibilityLines ==
    {LineShow, LineHide, LineClassA, LineClassPrefixed, LineSignalT,
     LineSignalPrefixed, LineFuncF, LineFuncPrefixed, LineVarW, LineVarPrefixed,
     LineConstC, LineConstPrefixed, LineExportE, LineExportPrefixed, LineEnumG,
     LineEnumPrefixed, LineEnumValuePrefixed, LineOpenContinued}

NextVisibility == NextOn(VisibilityLines, MaxVisibilityLines)

SpecVisibility == Init /\ [][NextVisibility]_vars

\* ------------------------------------------------------------------------
\* SpecEnums: enum values on the header line and on body lines, with
\* integers, with references to constants and with names that are none
\* ------------------------------------------------------------------------

MaxEnumLines == 3

\* const FOO = 3
LineConstFoo ==
    <<"c", "o", "n", "s", "t", " ", "F", "O", "O", " ", "=", " ", "3">>
\* var BAR = 4
LineVarBar == <<"v", "a", "r", " ", "B", "A", "R", " ", "=", " ", "4">>
\* enum E { A, B, C }
LineEnumABC ==
    <<"e", "n", "u", "m", " ", "E", " ", "{", " ", "A", ",", " ", "B", ",",
    " ", "C", " ", "}">>
\* enum E { A = 5, B, C = 2, D }
LineEnumMixed ==
    <<"e", "n", "u", "m", " ", "E", " ", "{", " ", "A", " ", "=", " ", "5",
    ",", " ", "B", ",", " ", "C", " ", "=", " ", "2", ",", " ", "D", " ",
    "}">>
\* enum E { A = FOO }
LineEnumFoo ==
    <<"e", "n", "u", "m", " ", "E", " ", "{", " ", "A", " ", "=", " ", "F",
    "O", "O", " ", "}">>
\* enum E {
LineEnumOpen == <<"e", "n", "u", "m", " ", "E", " ", "{">>
\* A = 5, , B,
LineBodyFirst == <<"A", " ", "=", " ", "5", ",", " ", ",", " ", "B", ",">>
\* C = 2, D }
LineBodyLast == <<"C", " ", "=", " ", "2", ",", " ", "D", " ", "}">>
\* A = FOO }
LineBodyFoo == <<"A", " ", "=", " ", "F", "O", "O", " ", "}">>
\* class K:
LineClassK == <<"c", "l", "a", "s", "s", " ", "K", ":">>
\* \tenum E { A = FOO }
LineNestedEnumFoo ==
    <<"\t", "e", "n", "u", "m", " ", "E", " ", "{", " ", "A", " ", "=", " ",
    "F", "O", "O", " ", "}">>
\* enum E { A = BAR }
LineEnumBar ==
    <<"e", "n", "u", "m", " ", "E", " ", "{", " ", "A", " ", "=", " ", "B",
    "A", "R", " ", "}">>
\* enum E { A = X }
LineEnumX ==
    <<"e", "n", "u", "m", " ", "E", " ", "{", " ", "A", " ", "=", " ", "X",
    " ", "}">>
\* enum _E { A = X }
LineEnumPrefixedX ==
    <<"e", "n", "u", "m", " ", "_", "E", " ", "{", " ", "A", " ", "=", " ",
    "X", " ", "}">>

EnumLines ==
    {LineConstFoo, LineVarBar, LineEnumABC, LineEnumMixed, LineEnumFoo,
     LineEnumOpen, LineBodyFirst, LineBodyLast, LineBodyFoo, LineClassK,
     LineNestedEnumFoo, LineEnumBar, LineEnumX, LineEnumPrefixedX,
     LineOpenContinued}

NextEnums == NextOn(EnumLines, MaxEnumLines)

SpecEnums == Init /\ [][NextEnums]_vars

\* The loop at the end of parse_file runs to its return.
FairSpec == Spec /\ WF_vars(CloseAtEof)

\* ------------------------------------------------------------------------
\* Properties of Spec: flattening, and the life of a class scope
\* ------------------------------------------------------------------------

KindOrder == <<"CLASS", "ENUM", "SIGNAL", "EXPORT", "CONST", "FUNC", "VAR">>

Rank(kind) == CHOOSE k \in 1..Len(KindOrder) : KindOrder[k] = kind

\* The bucket of frame that the entry of a kind is made from.
Bucket(frame, kind) ==
    CASE kind = "CLASS" -> frame.classes
      [] kind = "ENUM" -> frame.enums
      [] kind = "SIGNAL" -> frame.signals
      [] kind = "EXPORT" -> frame.exports
      [] kind = "CONST" -> frame.constants
      [] kind = "FUNC" -> frame.functions
      [] kind = "VAR" -> frame.variables

EntriesOfKind(entries, kind) ==
    {i \in 1..Len(entries) : entries[i].entry_type = kind}

\* entries is frame flattened: the entry of a kind is there exactly when the
\* bucket is not empty, it holds the bucket, and the kinds stand in KindOrder.
Flattened(entries, frame) ==
    /\ \A i \in 1..Len(entries) : \E k \in 1..Len(KindOrder) :
           entries[i].entry_type = KindOrder[k]
    /\ \A k \in 1..Len(KindOrder) :
           IF Bucket(frame, KindOrder[k]) = <<>>
           THEN EntriesOfKind(entries, KindOrder[k]) = {}
           ELSE /\ Cardinality(EntriesOfKind(entries, KindOrder[k])) = 1
                /\ \A i \in EntriesOfKind(entries, KindOrder[k]) :
                       entries[i].symbols = Bucket(frame, KindOrder[k])
    /\ \A i, j \in 1..Len(entries) :
           i < j => Rank(entries[i].entry_type) < Rank(entries[j].entry_type)

\* A step of parse_line or of the end-of-file loop with a class on top.
ClassOnTop ==
    /\ pc \in {"parse_line", "eof"}
    /\ Top(parsing_mode).tag = "Class"

\* The step takes the class on top off the stack and gives the frame beneath
\* one more Class symbol.
ClassAttached ==
    /\ ClassOnTop
    /\ Len(parsing_mode') = Len(parsing_mode) - 1
    /\ Len(Top(parsing_mode').frame.classes)
           = Len(Top(Pop(parsing_mode)).frame.classes) + 1

\* The Class symbol a step has just attached.
AttachedClass == Top(parsing_mode).frame.classes[Len(Top(parsing_mode).frame.classes)]

\* The step returns the file's entries.
RootFlattened ==
    /\ pc = "eof"
    /\ Top(parsing_mode).tag = "Normal"
    /\ result' # None

ClassSymbol(mode) ==
    Symbol(mode.name, Some([tag |-> "ClassArgs", entries |-> add_entries(mode.frame)]),
           mode.comments)

\* C2: an opened class scope leaves the scope stack only by being closed and
\* attached to its parent as one Class symbol that holds what the scope
\* accumulated; it is never discarded.
C2_ClassLeavesOnlyAttached ==
    [][(ClassOnTop /\ Len(parsing_mode') < Len(parsing_mode)) =>
           Top(parsing_mode').frame.classes
               = Append(Top(Pop(parsing_mode)).frame.classes,
                        ClassSymbol(Top(parsing_mode)))]_vars

\* The line in front of parse_line is deeper than the established indentation
\* of the class on top: neither content of the class nor a dedent.
DeeperThanScope ==
    /\ pc = "parse_line"
    /\ Top(parsing_mode).tag = "Class"
    /\ Top(parsing_mode).indent # None
    /\ get_indentation_level(full_line) > Unwrap(Top(parsing_mode).indent)

\* The dedent branch of parse_line: a class is attached and the same line
\* goes to parse_line again.
DedentClose ==
    /\ pc = "parse_line"
    /\ ClassAttached
    /\ pc' = "parse_line"

\* C3: a line below the established indentation closes the class and is then
\* processed against the parent, which closes in turn or takes the line as
\* its content, so that the line is parsed exactly once.
C3_DedentReachesEnclosingScope ==
    [][DedentClose => ~DeeperThanScope']_vars

\* The normal close of an enum: the line that holds nothing but its '}'.
ClosingBrace == <<"}">>

\* The stack after the normal close of the scope on top.
NormalClose ==
    IF Top(parsing_mode).tag = "Class"
    THEN CloseClass(Top(parsing_mode), Pop(parsing_mode), comment_buffer).stack
    ELSE EnumLine(Top(parsing_mode), Pop(parsing_mode), ClosingBrace, show_prefixed,
                  override_visibility, comment_buffer).stack

\* C4: once the input has ended with no continuation pending, every scope
\* still open is closed from the top of the stack, each attached to the frame
\* beneath it as on a normal close, and the flattened root frame is returned.
C4_EndOfInputClosesScopes ==
    /\ [][pc = "eof" =>
              IF Top(parsing_mode).tag = "Normal"
              THEN /\ Len(parsing_mode) = 1
                   /\ result' = Some(Ok(add_entries(Top(parsing_mode).frame)))
              ELSE /\ parsing_mode' = NormalClose
                   /\ result' = None]_vars
    /\ (pc = "eof") ~> (pc = "done" /\ parsing_mode = <<>> /\ Unwrap(result).ok)

\* class A: and \tenum E { are all the file holds: both scopes were closed at
\* the end of the input, the enum into the class and the class into the root.
C4_Witness ==
    /\ pc = "done"
    /\ lineno = 2
    /\ result
        = Some(Ok(<<[entry_type |-> "CLASS",
                     symbols |-> <<Symbol(<<"A">>,
                         Some([tag |-> "ClassArgs",
                               entries |-> <<[entry_type |-> "ENUM",
                                              symbols |-> <<Symbol(<<"E">>,
                                                  EnumArgs(<<>>), <<>>)>>]>>]),
                         <<>>)>>]>>))

\* ------------------------------------------------------------------------
\* Properties of SpecVisibility: the name rule and the directives
\* ------------------------------------------------------------------------

\* What a line of VisibilityLines declares: the kind of the symbol and its
\* name.  VALUE is the one value of the visible enum G.
Declaration(line, kind, name) == [line |-> line, kind |-> kind, name |-> name]

Declarations ==
    {Declaration(LineClassA, "CLASS", <<"A">>),
     Declaration(LineClassPrefixed, "CLASS", <<"_", "P">>),
     Declaration(LineSignalT, "SIGNAL", <<"t">>),
     Declaration(LineSignalPrefixed, "SIGNAL", <<"_", "t">>),
     Declaration(LineFuncF, "FUNC", <<"f">>),
     Declaration(LineFuncPrefixed, "FUNC", <<"_", "f">>),
     Declaration(LineVarW, "VAR", <<"w">>),
     Declaration(LineVarPrefixed, "VAR", <<"_", "w">>),
     Declaration(LineConstC, "CONST", <<"c">>),
     Declaration(LineConstPrefixed, "CONST", <<"_", "c">>),
     Declaration(LineExportE, "EXPORT", <<"e">>),
     Declaration(LineExportPrefixed, "EXPORT", <<"_", "e">>),
     Declaration(LineEnumG, "ENUM", <<"G">>),
     Declaration(LineEnumPrefixed, "ENUM", <<"_", "G">>),
     Declaration(LineEnumValuePrefixed, "VALUE", <<"_", "K">>)}

\* The line of d stands in front of parse_line with the root frame on top.
Declares(d) ==
    /\ pc = "parse_line"
    /\ Top(parsing_mode).tag = "Normal"
    /\ full_line = d.line

\* The name rule: a name is shown unless it starts with `_` and
\* show_prefixed is off.
NameShown(name) == name[1] # "_" \/ show_prefixed

RootFrame == parsing_mode[1].frame

LastOf(symbols) == symbols[Len(symbols)]

\* The step leaves everything in the buckets of the root where it was, but
\* for the one bucket of the kind.
OtherBucketsKept(kind) ==
    \A k \in 1..Len(KindOrder) :
        KindOrder[k] # kind =>
            Bucket(RootFrame', KindOrder[k]) = Bucket(RootFrame, KindOrder[k])

\* The step adds what d declares: a class opens its scope, an enum value
\* joins the values of its enum, any other kind gets one more symbol of the
\* declared name in its bucket.
Adds(d) ==
    /\ result' = None
    /\ IF d.kind = "CLASS"
       THEN /\ Len(parsing_mode') = 2
            /\ parsing_mode'[1] = parsing_mode[1]
            /\ Top(parsing_mode').tag = "Class"
            /\ Top(parsing_mode').name = d.name
       ELSE IF d.kind = "VALUE"
       THEN /\ Len(parsing_mode') = 1
            /\ Len(RootFrame'.enums) = Len(RootFrame.enums) + 1
            /\ Len(Unwrap(LastOf(RootFrame'.enums).arg).values) = 1
            /\ Unwrap(LastOf(RootFrame'.enums).arg).values[1].name = d.name
       ELSE /\ Len(parsing_mode') = 1
            /\ OtherBucketsKept(d.kind)
            /\ Len(Bucket(RootFrame', d.kind)) = Len(Bucket(RootFrame, d.kind)) + 1
            /\ LastOf(Bucket(RootFrame', d.kind)).name = d.name
            /\ SubSeq(Bucket(RootFrame', d.kind), 1, Len(Bucket(RootFrame, d.kind)))
                   = Bucket(RootFrame, d.kind)

\* The step adds nothing of what d declares: no symbol and no scope, and for
\* an enum value an enum without it.
Suppresses(d) ==
    /\ result' = None
    /\ IF d.kind = "VALUE"
       THEN /\ Len(parsing_mode') = 1
            /\ Len(RootFrame'.enums) = Len(RootFrame.enums) + 1
            /\ Unwrap(LastOf(RootFrame'.enums).arg).values = <<>>
       ELSE parsing_mode' = parsing_mode

\* C5: with no directive pending, a declaration of any kind whose name starts
\* with `_` adds no symbol when show_prefixed is off and adds it when
\* show_prefixed is on; any other name is added under either setting.
C5_NameRuleWithoutDirective ==
    [][\A d \in Declarations :
           (Declares(d) /\ override_visibility = None) =>
               IF NameShown(d.name) THEN Adds(d) ELSE Suppresses(d)]_vars

\* var _w then var w with show_prefixed off and no comment anywhere: the
\* root holds w alone.
C5_Witness ==
    /\ ~show_prefixed
    /\ pc = "next"
    /\ lineno = 2
    /\ parsing_mode
        = <<NormalMode([EmptyClassFrame EXCEPT !.variables =
               <<Symbol(<<"w">>,
                        Some([tag |-> "VariableArgs", value_type |-> None,
                              assignment |-> None, setter |-> None,
                              getter |-> None]),
                        <<>>)>>])>>

\* C6: a pending [Show] force-includes the next declaration, whatever its
\* name and whatever show_prefixed is.
C6_ShowForcesInclusion ==
    [][\A d \in Declarations :
           (Declares(d) /\ override_visibility = Some(TRUE)) => Adds(d)]_vars

\* C7: a pending [Hide] suppresses the next declaration of every kind: a
\* class, signal, function, variable, constant, export or enum behind it adds
\* no symbol and opens no scope.
C7_HideSuppressesEveryKind ==
    [][\A d \in Declarations :
           (Declares(d) /\ d.kind # "VALUE" /\ override_visibility = Some(FALSE)) =>
               Suppresses(d)]_vars

\* ------------------------------------------------------------------------
\* Properties of SpecEnums: the values of enum elements
\* ------------------------------------------------------------------------

\* One element as written: its name and the integer it gives, if any.
Element(name, explicit) == [name |-> name, explicit |-> explicit]

\* What the lines of EnumLines that give their values as integers hold, the
\* empty elements left out.
ElementsOf(line) ==
    CASE line = LineEnumABC ->
             <<Element(<<"A">>, None), Element(<<"B">>, None), Element(<<"C">>, None)>>
      [] line \in {LineEnumMixed} ->
             <<Element(<<"A">>, Some(5)), Element(<<"B">>, None),
               Element(<<"C">>, Some(2)), Element(<<"D">>, None)>>
      [] line = LineEnumOpen -> <<>>
      [] line = LineBodyFirst -> <<Element(<<"A">>, Some(5)), Element(<<"B">>, None)>>
      [] line = LineBodyLast -> <<Element(<<"C">>, Some(2)), Element(<<"D">>, None)>>

IntegerLines == {LineEnumABC, LineEnumMixed, LineEnumOpen, LineBodyFirst, LineBodyLast}

HeaderLines == {LineEnumABC, LineEnumMixed, LineEnumOpen}

\* The rule of the values: an element that gives an integer takes it, any
\* other takes the value after the previous element's, next for the first.
RECURSIVE ValuesByRule(_, _)
ValuesByRule(elements, next) ==
    IF elements = <<>> THEN <<>>
    ELSE IF IsSome(elements[1].explicit)
    THEN <<<<elements[1].name, Unwrap(elements[1].explicit)>>>>
         \o ValuesByRule(Tail(elements), Unwrap(elements[1].explicit) + 1)
    ELSE <<<<elements[1].name, next>>>> \o ValuesByRule(Tail(elements), next + 1)

NamesAndValues(values) ==
    [i \in 1..Len(values) |-> <<values[i].name, values[i].value>>]

\* The enum a line is about: the open enum on top of the stack, or the enum
\* the line has completed, the last of the frame on top.
EnumInHand ==
    IF Top(parsing_mode).tag = "Enum" THEN Top(parsing_mode).enum_frame.values
    ELSE Unwrap(LastOf(Top(parsing_mode).frame.enums).arg).values

\* A line of IntegerLines stands in front of parse_line where it is enum
\* content: a header at the root, a body line under an open enum.
EnumContentStep ==
    /\ pc = "parse_line"
    /\ full_line \in IntegerLines
    /\ IF full_line \in HeaderLines THEN Top(parsing_mode).tag = "Normal"
       ELSE Top(parsing_mode).tag = "Enum"

\* The values the enum held before the line, none for a header.
ValuesBefore ==
    IF Top(parsing_mode).tag = "Enum"
    THEN NamesAndValues(Top(parsing_mode).enum_frame.values)
    ELSE <<>>

\* The value the rule continues from: the one after the last element's.
NextValue(pairs) == IF pairs = <<>> THEN 0 ELSE pairs[Len(pairs)][2] + 1

\* C8: within one enum an element without a value gets the previous
\* element's value plus 1, 0 for the first, an element with an integer gets
\* that integer and the count goes on from it, and an empty element takes no
\* value, on the header line and on the body lines of an open enum alike.
C8_EnumValuesByRule ==
    [][EnumContentStep =>
           /\ result' = None
           /\ NamesAndValues(EnumInHand')
                  = ValuesBefore
                    \o ValuesByRule(ElementsOf(full_line), NextValue(ValuesBefore))]_vars

\* enum E { / A = 5, , B, / C = 2, D } has been read: E is complete in the
\* root with A = 5, B = 6, C = 2, D = 3.
C8_Witness ==
    /\ pc = "next"
    /\ lineno = 3
    /\ Len(parsing_mode) = 1
    /\ Len(RootFrame.enums) = 1
    /\ NamesAndValues(Unwrap(RootFrame.enums[1].arg).values)
        = <<<<(<<"A">>), 5>>, <<(<<"B">>), 6>>, <<(<<"C">>), 2>>, <<(<<"D">>), 3>>>>

\* The frames of the scopes that are open, the root first.
OpenFrames ==
    {parsing_mode[i].frame :
        i \in {j \in 1..Len(parsing_mode) : parsing_mode[j].tag # "Enum"}}

\* const FOO = 3 was declared in a scope that is open.
FooDeclared ==
    \E frame \in OpenFrames : \E i \in 1..Len(frame.constants) :
        /\ frame.constants[i].name = <<"F", "O", "O">>
        /\ Unwrap(frame.constants[i].arg).assignment = Some(<<"3">>)

\* A line with the element A = FOO stands in front of parse_line where it is
\* enum content.
FooReferenceStep ==
    /\ pc = "parse_line"
    /\ \/ full_line = LineEnumFoo /\ Top(parsing_mode).tag = "Normal"
       \/ full_line = LineNestedEnumFoo /\ Top(parsing_mode).tag = "Class"
       \/ full_line = LineBodyFoo /\ Top(parsing_mode).tag = "Enum"

\* C9: with const FOO = 3 declared earlier in the scope that holds the enum
\* or in a scope around it, the element A = FOO gets the value 3, on the
\* enum's header line and on a body line.
C9_ConstantReferenceResolves ==
    [][(FooReferenceStep /\ FooDeclared) =>
           /\ result' = None
           /\ NamesAndValues(EnumInHand') = <<<<(<<"A">>), 3>>>>]_vars

\* A header line whose element A names no integer and no constant: X is
\* declared nowhere, BAR by var alone.
UnresolvedReferenceStep ==
    /\ pc = "parse_line"
    /\ full_line \in {LineEnumX, LineEnumPrefixedX, LineEnumBar}
    /\ Top(parsing_mode).tag = "Normal"

\* C10: an enum element A = X where X is neither an integer nor the name of
\* a constant declared earlier in an open scope makes the parse fail; a name
\* declared by var alone does not resolve.
C10_UnresolvedValueFails ==
    [][UnresolvedReferenceStep =>
           (result' # None /\ ~Unwrap(result').ok)]_vars

\* ------------------------------------------------------------------------
\* SpecFunctions: function signatures at the root
\* ------------------------------------------------------------------------

MaxFunctionLines == 3

\* func foo(a, b: int, c = 1) -> bool:
LineFuncFoo ==
    <<"f", "u", "n", "c", " ", "f", "o", "o", "(", "a", ",", " ", "b", ":",
    " ", "i", "n", "t", ",", " ", "c", " ", "=", " ", "1", ")", " ", "-",
    ">", " ", "b", "o", "o", "l", ":">>
\* func h(a, b):
LineFuncPlain ==
    <<"f", "u", "n", "c", " ", "h", "(", "a", ",", " ", "b", ")", ":">>
\* func k(a: int) -> bool:
LineFuncTyped ==
    <<"f", "u", "n", "c", " ", "k", "(", "a", ":", " ", "i", "n", "t", ")",
    " ", "-", ">", " ", "b", "o", "o", "l", ":">>
\* func m(a = 1):
LineFuncDefault ==
    <<"f", "u", "n", "c", " ", "m", "(", "a", " ", "=", " ", "1", ")", ":">>
\* func _init(x).(y):
LineInitSuper ==
    <<"f", "u", "n", "c", " ", "_", "i", "n", "i", "t", "(", "x", ")", ".",
    "(", "y", ")", ":">>
\* func g(x).(y):
LineOtherSuper ==
    <<"f", "u", "n", "c", " ", "g", "(", "x", ")", ".", "(", "y", ")", ":">>
\* func _init(x).(y).(z):
LineInitThird ==
    <<"f", "u", "n", "c", " ", "_", "i", "n", "i", "t", "(", "x", ")", ".",
    "(", "y", ")", ".", "(", "z", ")", ":">>
\* func g(x)()():
LineThirdGroup ==
    <<"f", "u", "n", "c", " ", "g", "(", "x", ")", "(", ")", "(", ")", ":">>

FunctionLines ==
    {LineFuncFoo, LineFuncPlain, LineFuncTyped, LineFuncDefault, LineInitSuper,
     LineOtherSuper, LineInitThird, LineThirdGroup, LineOpenContinued}

NextFunctions == NextOn(FunctionLines, MaxFunctionLines)

SpecFunctions == Init /\ [][NextFunctions]_vars

\* ------------------------------------------------------------------------
\* Properties of SpecFunctions
\* ------------------------------------------------------------------------

\* One parameter as written: its name, its type and its default, if any.
Parameter(name, value_type, default_value) ==
    [name |-> name, value_type |-> value_type, default_value |-> default_value]

Signature(name, arguments, return_type) ==
    [name |-> name, arguments |-> arguments, return_type |-> return_type]

\* What the signatures of FunctionLines with one parameter list say.
SignatureOf(line) ==
    CASE line = LineFuncFoo ->
             Signature(<<"f", "o", "o">>,
                       <<Parameter(<<"a">>, None, None),
                         Parameter(<<"b">>, Some(<<"i", "n", "t">>), None),
                         Parameter(<<"c">>, None, Some(<<"1">>))>>,
                       Some(<<"b", "o", "o", "l">>))
      [] line = LineFuncPlain ->
             Signature(<<"h">>,
                       <<Parameter(<<"a">>, None, None), Parameter(<<"b">>, None, None)>>,
                       None)
      [] line = LineFuncTyped ->
             Signature(<<"k">>, <<Parameter(<<"a">>, Some(<<"i", "n", "t">>), None)>>,
                       Some(<<"b", "o", "o", "l">>))
      [] line = LineFuncDefault ->
             Signature(<<"m">>, <<Parameter(<<"a">>, None, Some(<<"1">>))>>, None)

SignatureLines == {LineFuncFoo, LineFuncPlain, LineFuncTyped, LineFuncDefault}

\* A line stands in front of parse_line with the root frame on top.
RootStep(line) ==
    /\ pc = "parse_line"
    /\ Top(parsing_mode).tag = "Normal"
    /\ full_line = line

\* The step gives the root one more Function symbol.
FunctionAdded ==
    /\ result' = None
    /\ Len(parsing_mode') = 1
    /\ Len(RootFrame'.functions) = Len(RootFrame.functions) + 1

AddedFunction == LastOf(RootFrame.functions)

\* C11: each comma-separated parameter of the primary list yields exactly one
\* argument, in source order, with its own name, its type if annotated and its
\* default if given, and the text after -> becomes the return type.
C11_EachParameterOneArgument ==
    [][\A line \in SignatureLines :
           RootStep(line) =>
               /\ FunctionAdded
               /\ AddedFunction'.name = SignatureOf(line).name
               /\ Unwrap(AddedFunction'.arg).arguments = SignatureOf(line).arguments
               /\ Unwrap(AddedFunction'.arg).super_arguments = None
               /\ Unwrap(AddedFunction'.arg).return_type
                      = SignatureOf(line).return_type]_vars

\* C12: the second group that `.` introduces is taken for _init alone, which
\* gets arguments [x] and super-arguments [y]; under any other name the `.`
\* fails the parse, and so does a third group under any name.
C12_SuperCallOnlyForInit ==
    [][/\ RootStep(LineInitSuper) =>
              /\ result' = None
              /\ show_prefixed =>
                     /\ FunctionAdded
                     /\ AddedFunction'.name = <<"_", "i", "n", "i", "t">>
                     /\ Unwrap(AddedFunction'.arg).arguments
                            = <<Parameter(<<"x">>, None, None)>>
                     /\ Unwrap(AddedFunction'.arg).super_arguments
                            = Some(<<Parameter(<<"y">>, None, None)>>)
       /\ \A line \in {LineOtherSuper, LineInitThird, LineThirdGroup} :
              RootStep(line) =>
                  /\ result' # None
                  /\ ~Unwrap(result').ok
                  /\ Unwrap(result').err = "Invalid syntax"]_vars

\* func _init(x).(y): has been read with show_prefixed on: the root holds
\* _init with its two argument lists.
C12_Witness ==
    /\ show_prefixed
    /\ pc = "next"
    /\ Len(parsing_mode) = 1
    /\ Len(RootFrame.functions) = 1
    /\ RootFrame.functions[1].name = <<"_", "i", "n", "i", "t">>
    /\ Unwrap(RootFrame.functions[1].arg).super_arguments
           = Some(<<Parameter(<<"y">>, None, None)>>)

\* ------------------------------------------------------------------------
\* SpecAssignments: var and const declarations at the root
\* ------------------------------------------------------------------------

MaxAssignmentLines == 3

\* var x: int = 1 setget set_x, get_x
LineVarFull ==
    <<"v", "a", "r", " ", "x", ":", " ", "i", "n", "t", " ", "=", " ", "1",
    " ", "s", "e", "t", "g", "e", "t", " ", "s", "e", "t", "_", "x", ",",
    " ", "g", "e", "t", "_", "x">>
\* var y = 2
LineVarInit == <<"v", "a", "r", " ", "y", " ", "=", " ", "2">>
\* var z: int
LineVarType == <<"v", "a", "r", " ", "z", ":", " ", "i", "n", "t">>
\* var n
LineVarName == <<"v", "a", "r", " ", "n">>
\* var p setget s, g
LineVarAccessors ==
    <<"v", "a", "r", " ", "p", " ", "s", "e", "t", "g", "e", "t", " ", "s",
    ",", " ", "g">>
\* const q: int = 1
LineConstTyped ==
    <<"c", "o", "n", "s", "t", " ", "q", ":", " ", "i", "n", "t", " ", "=",
    " ", "1">>
\* var r = 1 setget s
LineVarSetter ==
    <<"v", "a", "r", " ", "r", " ", "=", " ", "1", " ", "s", "e", "t", "g",
    "e", "t", " ", "s">>
\* var t: int setget , g
LineVarGetter ==
    <<"v", "a", "r", " ", "t", ":", " ", "i", "n", "t", " ", "s", "e", "t",
    "g", "e", "t", " ", ",", " ", "g">>
\* var u = "a" setget s
LineVarString ==
    <<"v", "a", "r", " ", "u", " ", "=", " ", "\"", "a", "\"", " ", "s", "e",
    "t", "g", "e", "t", " ", "s">>

AssignmentLines ==
    {LineVarFull, LineVarInit, LineVarType, LineVarName, LineVarAccessors,
     LineConstTyped, LineVarSetter, LineVarGetter, LineVarString}

NextAssignments == NextOn(AssignmentLines \cup {LineOpenContinued}, MaxAssignmentLines)

SpecAssignments == Init /\ [][NextAssignments]_vars

\* ------------------------------------------------------------------------
\* Properties of SpecAssignments
\* ------------------------------------------------------------------------

Pieces(kind, name, value_type, assignment, setter, getter) ==
    [kind |-> kind, name |-> name,
     arg |-> Some([tag |-> "VariableArgs", value_type |-> value_type,
                   assignment |-> assignment, setter |-> setter, getter |-> getter])]

\* The pieces the declarations of AssignmentLines are written with.
PiecesOf(line) ==
    CASE line = LineVarFull ->
             Pieces("VAR", <<"x">>, Some(<<"i", "n", "t">>), Some(<<"1">>),
                    Some(<<"s", "e", "t", "_", "x">>), Some(<<"g", "e", "t", "_", "x">>))
      [] line = LineVarInit ->
             Pieces("VAR", <<"y">>, None, Some(<<"2">>),
                    None, None)
      [] line = LineVarType ->
             Pieces("VAR", <<"z">>, Some(<<"i", "n", "t">>), None,
                    None, None)
      [] line = LineVarName ->
             Pieces("VAR", <<"n">>, None, None,
                    None, None)
      [] line = LineVarAccessors ->
             Pieces("VAR", <<"p">>, None, None,
                    Some(<<"s">>), Some(<<"g">>))
      [] line = LineConstTyped ->
             Pieces("CONST", <<"q">>, Some(<<"i", "n", "t">>), Some(<<"1">>),
                    None, None)
      [] line = LineVarSetter ->
             Pieces("VAR", <<"r">>, None, Some(<<"1">>),
                    Some(<<"s">>), None)
      [] line = LineVarGetter ->
             Pieces("VAR", <<"t">>, Some(<<"i", "n", "t">>), None,
                    None, Some(<<"g">>))
      [] line = LineVarString ->
             Pieces("VAR", <<"u">>, None, Some(<<"\"", "a", "\"">>),
                    Some(<<"s">>), None)

\* C13: a var/const tail written as name, optional `: type`, optional
\* `= initializer`, optional ` setget setter, getter` splits into exactly
\* those trimmed pieces, and every piece that is not written is absent.
C13_AssignmentSplitsIntoPieces ==
    [][\A line \in AssignmentLines :
           RootStep(line) =>
               /\ result' = None
               /\ Len(parsing_mode') = 1
               /\ Len(Bucket(RootFrame', PiecesOf(line).kind))
                      = Len(Bucket(RootFrame, PiecesOf(line).kind)) + 1
               /\ LastOf(Bucket(RootFrame', PiecesOf(line).kind)).name
                      = PiecesOf(line).name
               /\ LastOf(Bucket(RootFrame', PiecesOf(line).kind)).arg
                      = PiecesOf(line).arg]_vars

\* ------------------------------------------------------------------------
\* SpecContinuation: statements over several physical lines, and brackets
\* ------------------------------------------------------------------------

MaxContinuationLines == 3

\* var a = \\
LineVarContinued == <<"v", "a", "r", " ", "a", " ", "=", " ", "\\">>
\* \t1
LineValue == <<"\t", "1">>
\* func f(a, # first
LineFuncOpen ==
    <<"f", "u", "n", "c", " ", "f", "(", "a", ",", " ", "#", " ", "f", "i",
    "r", "s", "t">>
\* \tb): # second
LineFuncClose ==
    <<"\t", "b", ")", ":", " ", "#", " ", "s", "e", "c", "o", "n", "d">>
\* var a = [
LineListOpen == <<"v", "a", "r", " ", "a", " ", "=", " ", "[">>
\* \t1]
LineListClose == <<"\t", "1", "]">>
\* var a = ) \\
LineCloserContinued ==
    <<"v", "a", "r", " ", "a", " ", "=", " ", ")", " ", "\\">>
\* var c = )
LineExtraCloser == <<"v", "a", "r", " ", "c", " ", "=", " ", ")">>
\* var c = (]
LineMismatch == <<"v", "a", "r", " ", "c", " ", "=", " ", "(", "]">>

\* func f(a = "x", # first
LineFuncOpenString ==
    <<"f", "u", "n", "c", " ", "f", "(", "a", " ", "=", " ", "\"", "x", "\"",
    ",", " ", "#", " ", "f", "i", "r", "s", "t">>

ContinuationLines ==
    {LineVarContinued, LineValue, LineFuncOpen, LineFuncClose, LineListOpen,
     LineListClose, LineCloserContinued, LineExtraCloser, LineMismatch,
     LineFuncOpenString}

NextContinuation == NextOn(ContinuationLines, MaxContinuationLines)

SpecContinuation == Init /\ [][NextContinuation]_vars

\* ------------------------------------------------------------------------
\* Properties of SpecContinuation
\* ------------------------------------------------------------------------

\* The line ends in the continuation marker and holds no '#'.
Marked(l) == l # <<>> /\ l[Len(l)] = "\\" /\ \A i \in 1..Len(l) : l[i] # "#"

\* Text on which the scanner has nothing to do: no comment, no bracket, no
\* quote and no marker at its end.
PlainText(t) ==
    /\ \A i \in 1..Len(t) :
           t[i] \notin {"#", "(", ")", "[", "]", "{", "}", "\"", "'"}
    /\ ~Marked(t)
    /\ Trim(t) # <<>>

\* A '(' read earlier is still open.
ParenthesisOpen == \E i \in 1..Len(open_parentheses) : open_parentheses[i] = "("

\* C14: a physical line that ends in the backslash marker and holds no '#'
\* is joined with the next physical line, the marker removed, before any
\* grammar runs, so that the statement is parsed as one; if the input ends
\* right after such a line the parse fails with the unexpected-eof error.
C14_BackslashJoinsNextLine ==
    [][/\ \A l \in ContinuationLines :
              (Marked(l) /\ (ReadLine(l) \/ ReadInParentheses(l))) =>
                  /\ pc' = "backslash"
                  /\ partial_line' \o <<"\\">> = IF pc = "paren" THEN Trim(l) ELSE l
                  /\ full_line' = full_line
                  /\ parsing_mode' = parsing_mode
                  /\ result' = None
       /\ \A l \in ContinuationLines :
              (ReadAfterBackslash(l) /\ PlainText(partial_line \o Trim(l))) =>
                  /\ pc' = IF ParenthesisOpen THEN "paren" ELSE "parse_line"
                  /\ full_line' = full_line \o partial_line \o Trim(l)
                  /\ parsing_mode' = parsing_mode
                  /\ result' = None
       /\ (pc = "backslash" /\ lineno' = lineno) =>
              result' = Some(Err("Unexpected eof, expected newline", lineno))]_vars

\* var a = \ and \t1 have been read and parsed: the root holds a with the
\* initializer 1.
C14_Witness ==
    /\ pc = "next"
    /\ lineno = 2
    /\ Len(parsing_mode) = 1
    /\ Len(RootFrame.variables) = 1
    /\ RootFrame.variables[1].name = <<"a">>
    /\ Unwrap(RootFrame.variables[1].arg).assignment = Some(<<"1">>)

\* The double quotes of text before position i.
QuotesBefore(text, i) == Cardinality({j \in 1..(i - 1) : text[j] = "\""})

\* Where the trailing comment of text starts: its first '#' outside a string
\* literal, 0 without one.
TrailingCommentStart(text) ==
    LET hashes == {i \in 1..Len(text) : text[i] = "#" /\ QuotesBefore(text, i) % 2 = 0}
    IN  IF hashes = {} THEN 0 ELSE CHOOSE i \in hashes : \A j \in hashes : i <= j

\* The code of a physical line without its trailing comment, and the comment
\* lines it contributes.
CodeOf(text) ==
    IF TrailingCommentStart(text) = 0 THEN text
    ELSE TrimEnd(Take(text, TrailingCommentStart(text) - 1))

CommentsOf(text) ==
    IF TrailingCommentStart(text) = 0 THEN <<>>
    ELSE <<Trim(Drop(text, TrailingCommentStart(text)))>>

\* The physical line l as the statement loop takes it: trimmed while a '('
\* is open.
Taken(l) == IF pc = "paren" THEN Trim(l) ELSE l

\* C15: a statement that leaves a '(' unmatched absorbs the following
\* physical lines until no '(' is open and only then goes, once, to
\* parse_line; the trailing '#' comment of each absorbed physical line is
\* stripped from the joined text and recorded as a comment line of its own.
C15_OpenParenthesisAbsorbsLines ==
    [][/\ \A l \in ContinuationLines :
              (/\ ReadLine(l) \/ ReadInParentheses(l)
               /\ pc' \in {"paren", "parse_line"}) =>
                  /\ full_line' = full_line \o CodeOf(Taken(l))
                  /\ comment_buffer' = comment_buffer \o CommentsOf(Taken(l))
                  /\ (pc' = "paren") <=> ParenthesisOpen'
       /\ (pc = "paren") => parsing_mode' = parsing_mode
       /\ (pc # "parse_line" /\ pc' = "parse_line") => ~ParenthesisOpen']_vars

\* C16: implicit continuation applies to every bracket kind: as long as the
\* bracket stack is not empty after comment stripping ('(', '[' or '{' left
\* open) another physical line is read into the same statement, so that a
\* statement reaches parse_line only with an empty stack.
C16_EveryBracketContinues ==
    [][(pc # "parse_line" /\ pc' = "parse_line") => open_parentheses' = <<>>]_vars

\* C17: when the input ends while a bracket of any kind is open on the
\* bracket stack, parse_file fails with an unexpected-eof error and returns
\* no DocumentationData.
C17_EofWithOpenBracketFails ==
    (pc = "done" /\ IsSome(result) /\ Unwrap(result).ok) => open_parentheses = <<>>

\* The position of the first closing bracket of text that meets an empty
\* stack or an opener of another kind, 0 when every closer matches.
RECURSIVE UnmatchedCloser(_, _, _)
UnmatchedCloser(text, i, stack) ==
    IF i > Len(text) THEN 0
    ELSE IF text[i] \in {"(", "[", "{"}
    THEN UnmatchedCloser(text, i + 1, Append(stack, text[i]))
    ELSE IF text[i] \in {")", "]", "}"}
    THEN IF stack = <<>> \/ stack[Len(stack)] # Opener(text[i])
         THEN i
         ELSE UnmatchedCloser(text, i + 1, SubSeq(stack, 1, Len(stack) - 1))
    ELSE UnmatchedCloser(text, i + 1, stack)

\* The parse has failed on a closing bracket.
BracketError(r) == IsSome(r) /\ ~Unwrap(r).ok /\ Unwrap(r).err \in {"extra", "mismatch"}

\* C18: a closing bracket met on an empty stack, or on an opener of another
\* kind, fails the parse with an error that carries the 1-based number of
\* the physical line holding that bracket; a closer that matches the opener
\* on top pops it and raises nothing.
C18_BracketErrorNamesItsLine ==
    [][\A l \in ContinuationLines :
           /\ ((ReadLine(l) \/ ReadInParentheses(l)) /\ pc' # "backslash") =>
                  IF UnmatchedCloser(CodeOf(Taken(l)), 1, open_parentheses) = 0
                  THEN result' = None
                  ELSE /\ BracketError(result')
                       /\ Unwrap(result').lineno = lineno + 1
           /\ (ReadAfterBackslash(l) /\ pc' # "backslash") =>
                  IF UnmatchedCloser(CodeOf(partial_line \o Trim(l)), 1, open_parentheses) = 0
                  THEN result' = None
                  ELSE /\ BracketError(result')
                       /\ IF UnmatchedCloser(CodeOf(partial_line \o Trim(l)), 1, open_parentheses) <= Len(partial_line)
                          THEN Unwrap(result').lineno <= lineno
                          ELSE Unwrap(result').lineno = lineno + 1]_vars

\* ------------------------------------------------------------------------
\* SpecExports: export declarations with and without a hint
\* ------------------------------------------------------------------------

MaxExportLines == 3

\* export(int) var a
LineExportHint ==
    <<"e", "x", "p", "o", "r", "t", "(", "i", "n", "t", ")", " ", "v", "a",
    "r", " ", "a">>
\* export(int, 1, 5) var b: float
LineExportOptions ==
    <<"e", "x", "p", "o", "r", "t", "(", "i", "n", "t", ",", " ", "1", ",",
    " ", "5", ")", " ", "v", "a", "r", " ", "b", ":", " ", "f", "l", "o",
    "a", "t">>
\* export var c: float
LineExportAnnotated ==
    <<"e", "x", "p", "o", "r", "t", " ", "v", "a", "r", " ", "c", ":", " ",
    "f", "l", "o", "a", "t">>
\* export var d = f(1)
LineExportCall ==
    <<"e", "x", "p", "o", "r", "t", " ", "v", "a", "r", " ", "d", " ", "=",
    " ", "f", "(", "1", ")">>
\* export(int) e
LineExportNoVar ==
    <<"e", "x", "p", "o", "r", "t", "(", "i", "n", "t", ")", " ", "e">>

ExportLines ==
    {LineExportHint, LineExportOptions, LineExportAnnotated, LineExportCall}

NextExports ==
    NextOn(ExportLines \cup {LineExportNoVar, LineOpenContinued}, MaxExportLines)

SpecExports == Init /\ [][NextExports]_vars

\* ------------------------------------------------------------------------
\* Properties of SpecExports
\* ------------------------------------------------------------------------

Exported(name, value_type, options, assignment) ==
    [name |-> name, value_type |-> value_type, options |-> options,
     assignment |-> assignment]

\* What the declarations of ExportLines say: the first element of the hint
\* is the type, the others are the options; without a hint the annotation is
\* the type.
ExportedBy(line) ==
    CASE line = LineExportHint -> Exported(<<"a">>, Some(<<"i", "n", "t">>), <<>>, None)
      [] line = LineExportOptions -> Exported(<<"b">>, Some(<<"i", "n", "t">>), <<<<"1">>, <<"5">>>>, None)
      [] line = LineExportAnnotated -> Exported(<<"c">>, Some(<<"f", "l", "o", "a", "t">>), <<>>, None)
      [] line = LineExportCall -> Exported(<<"d">>, None, <<>>, Some(<<"f", "(", "1", ")">>))

AddedExport == LastOf(RootFrame.exports)

\* C19: with a parenthesised hint before " var " the Export symbol's type is
\* the first comma-separated element of the hint and its options are the
\* other elements, also when the variable has its own `: T`; without a hint
\* the type is the variable's annotation; an export line without " var "
\* fails the parse.
C19_ExportHintGivesTypeAndOptions ==
    [][/\ \A line \in ExportLines :
              RootStep(line) =>
                  /\ result' = None
                  /\ Len(parsing_mode') = 1
                  /\ Len(RootFrame'.exports) = Len(RootFrame.exports) + 1
                  /\ AddedExport'.name = ExportedBy(line).name
                  /\ Unwrap(AddedExport'.arg).value_type = ExportedBy(line).value_type
                  /\ Unwrap(AddedExport'.arg).options = ExportedBy(line).options
                  /\ Unwrap(AddedExport'.arg).assignment = ExportedBy(line).assignment
       /\ RootStep(LineExportNoVar) =>
              /\ result' # None
              /\ ~Unwrap(result').ok
              /\ Unwrap(result').err = "Invalid syntax"]_vars

\* export(int, 1, 5) var b: float has been parsed: the root holds the export
\* b of type int with the options 1 and 5.
C19_Witness ==
    /\ pc = "next"
    /\ Len(parsing_mode) = 1
    /\ RootFrame.exports # <<>>
    /\ AddedExport.name = <<"b">>
    /\ Unwrap(AddedExport.arg).value_type = Some(<<"i", "n", "t">>)
    /\ Unwrap(AddedExport.arg).options = <<<<"1">>, <<"5">>>>

\* ------------------------------------------------------------------------
\* SpecComments: comment lines and the symbols they document
\* ------------------------------------------------------------------------

MaxCommentLines == 3

\* # a
LineCommentA == <<"#", " ", "a">>
\* # b
LineCommentB == <<"#", " ", "b">>
\* # warning-ignore:u
LineCommentIgnore ==
    <<"#", " ", "w", "a", "r", "n", "i", "n", "g", "-", "i", "g", "n", "o",
    "r", "e", ":", "u">>
\* 
LineBlank == <<>>
\* var x # own
LineVarOwn == <<"v", "a", "r", " ", "x", " ", "#", " ", "o", "w", "n">>
\* signal s
LineSignalDoc == <<"s", "i", "g", "n", "a", "l", " ", "s">>
\* func f():
LineFuncDoc == <<"f", "u", "n", "c", " ", "f", "(", ")", ":">>
\* const c = 1
LineConstDoc == <<"c", "o", "n", "s", "t", " ", "c", " ", "=", " ", "1">>
\* export var e
LineExportDoc ==
    <<"e", "x", "p", "o", "r", "t", " ", "v", "a", "r", " ", "e">>
\* class K:
LineClassDoc == <<"c", "l", "a", "s", "s", " ", "K", ":">>
\* g()
LineCall == <<"g", "(", ")">>

CommentLines ==
    {LineCommentA, LineCommentB, LineCommentIgnore, LineBlank, LineVarOwn,
     LineSignalDoc, LineFuncDoc, LineConstDoc, LineExportDoc, LineClassDoc,
     LineCall, LineOpenContinued}

NextComments == NextOn(CommentLines, MaxCommentLines)

SpecComments == Init /\ [][NextComments]_vars

\* ------------------------------------------------------------------------
\* Properties of SpecComments
\* ------------------------------------------------------------------------

\* A physical line that holds a comment and no code.
CommentOnly(text) == TrailingCommentStart(text) # 0 /\ Trim(CodeOf(text)) = <<>>

\* The comments that are kept for documentation.
KeptComments(comments) == SelectSeq(comments, LAMBDA c : ~StartsWith(c, WarningIgnore))

\* A read that completes the text scanned for a comment, and that text.
Scanned(l) ==
    /\ ReadLine(l) \/ ReadAfterBackslash(l) \/ ReadInParentheses(l)
    /\ pc' # "backslash"
    /\ result' = None

ScannedText(l) ==
    IF pc = "backslash" THEN partial_line \o Trim(l) ELSE Taken(l)

DocumentedKinds == {"SIGNAL", "FUNC", "VAR", "CONST", "EXPORT"}

\* A symbol that parse_line creates in the root, or a class it opens, takes
\* the whole buffer in its order and leaves it empty; the Class symbol made at
\* the end of the input has the comments of its header; and every statement
\* that parse_line returns from leaves the buffer empty.
CommentsFlushed ==
    /\ \A kind \in DocumentedKinds :
           (/\ pc = "parse_line"
            /\ Len(parsing_mode) = 1
            /\ result' = None
            /\ Len(Bucket(RootFrame', kind)) = Len(Bucket(RootFrame, kind)) + 1) =>
               /\ LastOf(Bucket(RootFrame', kind)).text = comment_buffer
               /\ comment_buffer' = <<>>
    /\ (/\ pc = "parse_line"
        /\ Len(parsing_mode) = 1
        /\ Len(parsing_mode') = 2
        /\ parsing_mode'[2].tag = "Class") =>
           /\ parsing_mode'[2].comments = comment_buffer
           /\ comment_buffer' = <<>>
    /\ (pc = "eof" /\ Len(parsing_mode) = 2 /\ Top(parsing_mode).tag = "Class") =>
           LastOf(RootFrame'.classes).text = Top(parsing_mode).comments
    /\ (pc = "parse_line" /\ pc' = "next") => comment_buffer' = <<>>

\* C20: the comment lines of a new signal, function, variable, constant,
\* export or class symbol are exactly the consecutive comment lines right
\* before its declaration, in source order: each comment line is buffered,
\* a line with code adds nothing to the buffer, the symbol takes the whole
\* buffer, and the buffer is empty after the symbol and after every other
\* statement.
C20_CommentsPrecedeDeclaration ==
    [][/\ \A l \in CommentLines :
              Scanned(l) =>
                  comment_buffer' = comment_buffer \o
                      (IF CommentOnly(ScannedText(l)) THEN CommentsOf(ScannedText(l))
                       ELSE <<>>)
       /\ CommentsFlushed]_vars

\* C20 as the code has it: the buffer takes the comment of every physical
\* line read since the last statement, the declaration's own lines included,
\* but no comment that starts with warning-ignore: ; the symbol takes the
\* whole buffer in its order, and the buffer is empty after the symbol and
\* after every other statement.
C20_CommentsBufferedSinceLastStatement ==
    [][/\ \A l \in CommentLines :
              Scanned(l) =>
                  comment_buffer' = comment_buffer \o KeptComments(CommentsOf(ScannedText(l)))
       /\ CommentsFlushed]_vars

\* # a and var x # own have been parsed: x carries a and own, and the buffer
\* is empty.
C20_Witness ==
    /\ pc = "next"
    /\ lineno = 2
    /\ comment_buffer = <<>>
    /\ Len(parsing_mode) = 1
    /\ Len(RootFrame.variables) = 1
    /\ RootFrame.variables[1].name = <<"x">>
    /\ RootFrame.variables[1].text = <<<<"a">>, <<"o", "w", "n">>>>

\* ------------------------------------------------------------------------
\* SpecDirectives: [Show] and [Hide] among declarations and other lines
\* ------------------------------------------------------------------------

MaxDirectiveLines == 3

DirectiveLines ==
    {LineShow, LineHide, LineCommentA, LineBlank, LineVarW, LineVarPrefixed,
     LineSignalT, LineCall, LineClassA, LineVarX, LineOpenContinued}

NextDirectives == NextOn(DirectiveLines, MaxDirectiveLines)

SpecDirectives == Init /\ [][NextDirectives]_vars

\* ------------------------------------------------------------------------
\* Properties of SpecDirectives
\* ------------------------------------------------------------------------

\* A pending directive was read after the last statement: its comment is
\* still in the buffer.
DirectiveOfThisStatement ==
    \/ override_visibility = None
    \/ /\ override_visibility = Some(TRUE)
       /\ \E i \in 1..Len(comment_buffer) : comment_buffer[i] = ShowDirective
    \/ /\ override_visibility = Some(FALSE)
       /\ \E i \in 1..Len(comment_buffer) : comment_buffer[i] = HideDirective

\* C21: the directive is one-shot: once a non-empty logical line has been
\* processed, whatever it was, the pending override is unset and the comment
\* buffer is empty, so that a directive is pending only for the statement it
\* was read with and never reaches a later declaration.
C21_DirectiveIsOneShot ==
    [][/\ (pc = "parse_line" /\ pc' = "next") =>
              (override_visibility' = None /\ comment_buffer' = <<>>)
       /\ DirectiveOfThisStatement']_vars

\* # [Hide], class A: and \tvar x have been parsed: the class kept the comment
\* of the directive, and x, declared after it, is there.
C21_Witness ==
    /\ pc = "next"
    /\ lineno = 3
    /\ override_visibility = None
    /\ comment_buffer = <<>>
    /\ Len(parsing_mode) = 2
    /\ parsing_mode[2].tag = "Class"
    /\ parsing_mode[2].comments = <<HideDirective>>
    /\ Len(parsing_mode[2].frame.variables) = 1
    /\ parsing_mode[2].frame.variables[1].name = <<"x">>

\* ------------------------------------------------------------------------
\* Properties of Spec: the lines of a class scope
\* ------------------------------------------------------------------------

\* The tabs a text starts with.
LeadingTabs(text) == Cardinality({i \in 1..Len(text) : \A j \in 1..i : text[j] = "\t"})

\* A class header has been parsed and the class has had no line yet.
FreshClassOnTop ==
    /\ pc = "parse_line"
    /\ Top(parsing_mode).tag = "Class"
    /\ Top(parsing_mode).indent = None

\* C22: the first non-empty logical line after a class header is indented
\* strictly deeper than the header, and then its indentation is the scope's
\* established indentation; otherwise the parse fails with the error
\* 'Indented block expected' at that line and returns no Class symbol.
C22_FirstLineEstablishesIndentation ==
    [][FreshClassOnTop =>
           IF LeadingTabs(full_line) > Top(parsing_mode).old_indent
           THEN /\ result' = None
                /\ Len(parsing_mode') >= Len(parsing_mode)
                /\ parsing_mode'[Len(parsing_mode)].tag = "Class"
                /\ parsing_mode'[Len(parsing_mode)].name = Top(parsing_mode).name
                /\ parsing_mode'[Len(parsing_mode)].indent = Some(LeadingTabs(full_line))
           ELSE /\ pc' = "done"
                /\ result' = Some(Err("Indented block expected", lineno))]_vars

\* class A: and \t\t\tvar y have been parsed: the indentation of A is 3 and y
\* is in A.
C22_Witness ==
    /\ pc = "next"
    /\ lineno = 2
    /\ Len(parsing_mode) = 2
    /\ Top(parsing_mode).tag = "Class"
    /\ Top(parsing_mode).old_indent = 0
    /\ Top(parsing_mode).indent = Some(3)
    /\ Len(Top(parsing_mode).frame.variables) = 1

\* ------------------------------------------------------------------------
\* SpecStatements: lines that declare nothing
\* ------------------------------------------------------------------------

MaxStatementLines == 3

\* variable = 1
LineVariable == <<"v", "a", "r", "i", "a", "b", "l", "e", " ", "=", " ", "1">>
\* tool
LineTool == <<"t", "o", "o", "l">>
\* exported = 1
LineExported == <<"e", "x", "p", "o", "r", "t", "e", "d", " ", "=", " ", "1">>
\* enumerate(x)
LineEnumerate ==
    <<"e", "n", "u", "m", "e", "r", "a", "t", "e", "(", "x", ")">>
\* \tg()
LineIndentedCall == <<"\t", "g", "(", ")">>
\* \texported = 1
LineIndentedExported ==
    <<"\t", "e", "x", "p", "o", "r", "t", "e", "d", " ", "=", " ", "1">>

\* Bracket-balanced lines whose leading word is no keyword.
StatementLines ==
    {LineCall, LineVariable, LineTool, LineExported, LineEnumerate,
     LineIndentedCall, LineIndentedExported}

NextStatements ==
    NextOn(StatementLines \cup {LineClassA, LineVarX, LineVarV, LineOpenContinued},
           MaxStatementLines)

SpecStatements == Init /\ [][NextStatements]_vars

\* ------------------------------------------------------------------------
\* Properties of SpecStatements
\* ------------------------------------------------------------------------

\* The line in front of parse_line stands at the indentation of the scope on
\* top: the root, or a class whose indentation it has or is about to fix.
AtScopeIndentation ==
    /\ pc = "parse_line"
    /\ \/ Top(parsing_mode).tag = "Normal" /\ LeadingTabs(full_line) = 0
       \/ /\ Top(parsing_mode).tag = "Class"
          /\ \/ Top(parsing_mode).indent = Some(LeadingTabs(full_line))
             \/ /\ Top(parsing_mode).indent = None
                /\ LeadingTabs(full_line) > Top(parsing_mode).old_indent

\* C23: a bracket-balanced line at the indentation of the root or of a class
\* scope whose leading word is none of class, signal, func, var, const,
\* export, enum is ignored: no symbol is added, no scope is opened and no
\* error is raised.
C23_OtherStatementsIgnored ==
    [][(AtScopeIndentation /\ full_line \in StatementLines) =>
           /\ result' = None
           /\ pc' = "next"
           /\ Len(parsing_mode') = Len(parsing_mode)
           /\ Pop(parsing_mode') = Pop(parsing_mode)
           /\ Top(parsing_mode').frame = Top(parsing_mode).frame]_vars

\* ------------------------------------------------------------------------
\* SpecLineNumbers: diagnostics of statements over several physical lines
\* ------------------------------------------------------------------------

MaxNumberedLines == 3

NumberedLines ==
    {LineClassA, LineVarV, LineVarContinued, LineValue, LineFuncOpen,
     LineFuncClose, LineOpenContinued}

NextLineNumbers == NextOn(NumberedLines, MaxNumberedLines)

SpecLineNumbers == Init /\ [][NextLineNumbers]_vars

\* ------------------------------------------------------------------------
\* Properties of SpecLineNumbers
\* ------------------------------------------------------------------------

\* var a = 1, joined from `var a = \` and `\t1`
StatementVarJoined == <<"v", "a", "r", " ", "a", " ", "=", " ", "1">>

\* func f(a,b):, joined from `func f(a, # first` and `\tb): # second`
StatementFuncJoined == <<"f", "u", "n", "c", " ", "f", "(", "a", ",", "b", ")", ":">>

\* The physical lines of the statements that the lines of NumberedLines make
\* in one or two reads.
PhysicalLinesOf(statement) ==
    CASE statement = LineVarV -> 1
      [] statement = LineClassA -> 1
      [] statement = StatementVarJoined -> 2
      [] statement = StatementFuncJoined -> 2

\* C24: the line number of a statement, the one its diagnostics carry, is
\* the 1-based number of the physical line on which the statement starts,
\* also when backslash or bracket continuation spreads it over several lines.
C24_DiagnosticsNameFirstLine ==
    [][(/\ pc = "parse_line"
        /\ full_line \in {LineVarV, LineClassA, StatementVarJoined, StatementFuncJoined}
        /\ result' # None) =>
           Unwrap(result').lineno = lineno - PhysicalLinesOf(full_line) + 1]_vars

\* ------------------------------------------------------------------------
\* Properties of Spec: the shape of the scope stack
\* ------------------------------------------------------------------------

\* One Root frame at the bottom, Class scopes above it, and an Enum scope on
\* top at most.
StackShape ==
    /\ parsing_mode # <<>>
    /\ parsing_mode[1].tag = "Normal"
    /\ \A i \in 2..Len(parsing_mode) :
           \/ parsing_mode[i].tag = "Class"
           \/ parsing_mode[i].tag = "Enum" /\ i = Len(parsing_mode)

\* C25: until parse_file returns, the scope stack is one Root frame at the
\* bottom, zero or more Class scopes above it and at most one Enum scope, on
\* top; so the stack is not empty when a line is dispatched, a closing class
\* or enum finds a Root or Class frame beneath it, and none of the
\* 'unexpected stack' panics is reached.
C25_StackShape ==
    /\ pc # "done" => StackShape
    /\ result # None => (Unwrap(result).ok \/ Unwrap(result).err # "panic")

\* class A: and \tenum E { have been parsed: Root, Class and Enum are stacked.
C25_Witness ==
    /\ pc = "next"
    /\ Len(parsing_mode) = 3
    /\ parsing_mode[2].tag = "Class"
    /\ parsing_mode[3].tag = "Enum"

\* A line stands in front of parse_line that is indented deeper than the
\* established indentation of the class on top.
DeeperThanClass ==
    /\ pc = "parse_line"
    /\ Top(parsing_mode).tag = "Class"
    /\ Top(parsing_mode).indent # None
    /\ LeadingTabs(full_line) > Unwrap(Top(parsing_mode).indent)

\* C26: a logical line indented deeper than the established indentation of
\* the open class scope does not pop the scope: the scope stack, with the
\* symbols the class has accumulated, is the same after the line as before.
C26_DeeperLineKeepsScope ==
    [][DeeperThanClass => (result' = None /\ parsing_mode' = parsing_mode)]_vars

\* ------------------------------------------------------------------------
\* SpecScanner: string literals and brackets under find
\* ------------------------------------------------------------------------

MaxScannerLines == 3

\* var s = "a" # doc
LineStringComment ==
    <<"v", "a", "r", " ", "s", " ", "=", " ", "\"", "a", "\"", " ", "#", " ",
    "d", "o", "c">>
\* var h = "#"
LineStringHash == <<"v", "a", "r", " ", "h", " ", "=", " ", "\"", "#", "\"">>
\* var b = "("
LineStringBracket ==
    <<"v", "a", "r", " ", "b", " ", "=", " ", "\"", "(", "\"">>
\* var k = ")"
LineStringCloser ==
    <<"v", "a", "r", " ", "k", " ", "=", " ", "\"", ")", "\"">>
\* var p = "()"
LineStringPair ==
    <<"v", "a", "r", " ", "p", " ", "=", " ", "\"", "(", ")", "\"">>
\* var d = {1: 2}
LineDict ==
    <<"v", "a", "r", " ", "d", " ", "=", " ", "{", "1", ":", " ", "2", "}">>
\* var c = f(a = 1)
LineCallNamed ==
    <<"v", "a", "r", " ", "c", " ", "=", " ", "f", "(", "a", " ", "=", " ",
    "1", ")">>

\* Lines with a string literal and no bracket outside it.
StringLines ==
    {LineStringComment, LineStringHash, LineStringBracket, LineStringCloser,
     LineStringPair}

\* Lines whose initializer holds '=' or ':' inside a bracket pair.
BracketedLines == {LineDict, LineCallNamed}

NextScanner ==
    NextOn(StringLines \cup BracketedLines \cup {LineVarV, LineOpenContinued},
           MaxScannerLines)

SpecScanner == Init /\ [][NextScanner]_vars

\* ------------------------------------------------------------------------
\* Properties of SpecScanner
\* ------------------------------------------------------------------------

\* C27: string mode ends at the closing quote: a '#' inside a string literal
\* starts no comment, and a '#' after a complete string literal is found, so
\* that the trailing comment is stripped from the code and recorded as a
\* comment line.
C27_StringModeEndsAtClosingQuote ==
    [][\A l \in {LineStringComment, LineStringHash} :
           ReadLine(l) =>
               /\ result' = None
               /\ pc' = "parse_line"
               /\ full_line' = CodeOf(l)
               /\ comment_buffer' = comment_buffer \o CommentsOf(l)]_vars

\* C28: brackets inside a string literal are not bookkept: a line whose only
\* brackets are inside string literals leaves the bracket stack as it was
\* and raises no bracket error.
C28_BracketsInStringsNotBookkept ==
    [][\A l \in {LineStringBracket, LineStringCloser, LineStringPair} :
           ReadLine(l) =>
               /\ result' = None
               /\ open_parentheses' = open_parentheses
               /\ pc' = "parse_line"]_vars

\* What the declarations of BracketedLines say.
BracketedPieces(line) ==
    CASE line = LineDict -> [name |-> <<"d">>, assignment |-> Some(<<"{", "1", ":", " ", "2", "}">>)]
      [] line = LineCallNamed -> [name |-> <<"c">>, assignment |-> Some(<<"f", "(", "a", " ", "=", " ", "1", ")">>)]

\* C29: an '=', ':' or ' setget ' inside an open bracket pair of the
\* initializer is not the top-level token: the declaration splits at the
\* top-level '=' and does not fail.
C29_TokensInBracketsSkipped ==
    [][\A line \in BracketedLines :
           RootStep(line) =>
               /\ result' = None
               /\ Len(RootFrame'.variables) = Len(RootFrame.variables) + 1
               /\ LastOf(RootFrame'.variables).name = BracketedPieces(line).name
               /\ Unwrap(LastOf(RootFrame'.variables).arg).value_type = None
               /\ Unwrap(LastOf(RootFrame'.variables).arg).assignment
                      = BracketedPieces(line).assignment]_vars

\* ------------------------------------------------------------------------
\* SpecEnumComments: comment lines in front of an enum
\* ------------------------------------------------------------------------

MaxEnumCommentLines == 3

EnumCommentLines ==
    {LineCommentA, LineEnumABC, LineEnumOpen, LineBodyLast, LineOpenContinued}

NextEnumComments == NextOn(EnumCommentLines, MaxEnumCommentLines)

SpecEnumComments == Init /\ [][NextEnumComments]_vars

\* ------------------------------------------------------------------------
\* Properties of SpecEnumComments
\* ------------------------------------------------------------------------

\* No value of the Enum symbol carries a comment line.
ValuesUncommented(enum) ==
    \A i \in 1..Len(Unwrap(enum.arg).values) : Unwrap(enum.arg).values[i].text = <<>>

\* The closing line of the enum of the file # a / enum E { / C = 2, D } stands
\* in front of parse_line: the root has no enum and the open enum no value
\* yet, so the header was line 2, and line 3 was read with an empty buffer, so
\* # a was not read inside the body but as line 1.
ClosingCommentedEnum ==
    /\ pc = "parse_line"
    /\ lineno = 3
    /\ Len(parsing_mode) = 2
    /\ Top(parsing_mode).tag = "Enum"
    /\ Top(parsing_mode).enum_frame.values = <<>>
    /\ RootFrame.enums = <<>>
    /\ comment_buffer = <<>>
    /\ full_line = LineBodyLast

\* C30: the Enum symbol carries the comment lines in front of the enum's
\* header, for an enum on one line and for an enum whose body spans several
\* lines: the lines are not given to a value of the enum and are not lost.
C30_EnumCarriesHeaderComments ==
    [][/\ RootStep(LineEnumABC) =>
              /\ result' = None
              /\ Len(RootFrame'.enums) = Len(RootFrame.enums) + 1
              /\ LastOf(RootFrame'.enums).text = comment_buffer
              /\ ValuesUncommented(LastOf(RootFrame'.enums))
       /\ ClosingCommentedEnum =>
              /\ result' = None
              /\ Len(RootFrame'.enums) = 1
              /\ LastOf(RootFrame'.enums).text = <<<<"a">>>>
              /\ ValuesUncommented(LastOf(RootFrame'.enums))]_vars

\* ------------------------------------------------------------------------
\* parse_file as a function of the file and the setting
\* ------------------------------------------------------------------------

\* The state of parse_file as a record: one field for each variable but
\* show_prefixed, which the run takes as its argument.
InitialState ==
    [pc |-> "next", lineno |-> 0,
     parsing_mode |-> <<NormalMode(EmptyClassFrame)>>,
     comment_buffer |-> <<>>, override_visibility |-> None,
     open_parentheses |-> <<>>, full_line |-> <<>>, partial_line |-> <<>>,
     result |-> None]

\* A `?` that leaves parse_file with an error.
Failed(s, kind) == [s EXCEPT !.pc = "done", !.result = Some(Err(kind, s.lineno))]

\* The statement loop after get_comment (gc) on the physical text.
AbsorbedComment(s, gc, joined) ==
    IF gc.err # NoError THEN Failed(s, gc.err)
    ELSE [s EXCEPT
            !.override_visibility =
                IF IsSome(gc.comment) THEN DirectiveAfter(Unwrap(gc.comment), @) ELSE @,
            !.comment_buffer =
                IF IsSome(gc.comment) THEN BufferAfter(Unwrap(gc.comment), @) ELSE @,
            !.open_parentheses = gc.parentheses,
            !.partial_line = <<>>,
            !.pc = IF Contains(gc.parentheses, "(") THEN "paren"
                   ELSE IF Trim(joined) # <<>> THEN "parse_line"
                   ELSE "next",
            !.full_line = IF Contains(gc.parentheses, "(") \/ Trim(joined) # <<>>
                          THEN joined
                          ELSE <<>>]

\* The code of the physical text joins the logical line.
JoinedComment(s, gc) ==
    AbsorbedComment(s, gc, IF gc.err # NoError THEN <<>> ELSE s.full_line \o gc.code)

\* The body of the statement loop from its backslash test on.
Absorbed(s, partial) ==
    IF EndsWith(partial, <<"\\">>) /\ ~Contains(partial, "#")
    THEN [s EXCEPT !.pc = "backslash", !.partial_line = Take(partial, Len(partial) - 1)]
    ELSE JoinedComment(s, get_comment(partial, s.open_parentheses))

\* lines.next() returns the line l: at the head of the statement loop it is
\* taken as it is, after a backslash it is trimmed and appended, and inside
\* a '(' it is trimmed.
Read(s, l) ==
    Absorbed([s EXCEPT !.lineno = @ + 1],
             IF s.pc = "next" THEN l
             ELSE IF s.pc = "backslash" THEN s.partial_line \o Trim(l)
             ELSE Trim(l))

\* lines.next() returns None.
AtEnd(s) ==
    IF s.pc = "next" THEN [s EXCEPT !.pc = "eof"]
    ELSE IF s.pc = "backslash" THEN Failed(s, "Unexpected eof, expected newline")
    ELSE Failed(s, "Unexpected eof, mismatched parentheses")

\* What parse_file does with the outcome r of one parse_line call.
Dispatched(s, r) ==
    IF r.err # NoError THEN Failed(s, r.err)
    ELSE IF r.recurse
    THEN [s EXCEPT !.parsing_mode = r.stack, !.comment_buffer = r.comment_buffer]
    ELSE [s EXCEPT !.parsing_mode = r.stack, !.comment_buffer = <<>>,
                   !.override_visibility = None, !.pc = "next", !.full_line = <<>>]

\* One round of `while parsing_mode.len() > 0`.
Closed(s, mode, stack) ==
    IF mode.tag = "Normal"
    THEN [s EXCEPT !.pc = "done", !.result = Some(Ok(add_entries(mode.frame))),
                   !.parsing_mode = stack]
    ELSE IF ~HasParentFrame(stack)
    THEN [s EXCEPT !.pc = "done", !.result = Some(Err("panic", s.lineno))]
    ELSE IF mode.tag = "Class"
    THEN [s EXCEPT !.parsing_mode = EofCloseClass(mode, stack)]
    ELSE [s EXCEPT !.parsing_mode = EofCloseEnum(mode, stack, s.comment_buffer),
                   !.comment_buffer = <<>>]

\* The next step of parse_file on file from the state s.
Step(file, setting, s) ==
    IF s.pc \in {"next", "backslash", "paren"}
    THEN IF s.lineno < Len(file) THEN Read(s, file[s.lineno + 1]) ELSE AtEnd(s)
    ELSE IF s.pc = "parse_line"
    THEN Dispatched(s, parse_line(Top(s.parsing_mode), Pop(s.parsing_mode),
                                  s.full_line, setting, s.override_visibility,
                                  s.comment_buffer, get_indentation_level(s.full_line)))
    ELSE Closed(s, Top(s.parsing_mode), Pop(s.parsing_mode))

RECURSIVE Run(_, _, _)
\* parse_file run from the state s until it returns.
Run(file, setting, s) ==
    IF s.pc = "done" THEN s ELSE Run(file, setting, Step(file, setting, s))

\* parse_file: Some(Ok(entries)) or Some(Err(kind, lineno)).
parse_file(file, setting) == Run(file, setting, InitialState).result

\* ------------------------------------------------------------------------
\* SpecSettings: the same file under both visibility settings
\* ------------------------------------------------------------------------

MaxSettingLines == 3

\* A = _c }
LineBodyHiddenConst == <<"A", " ", "=", " ", "_", "c", " ", "}">>

SettingLines ==
    {LineEnumPrefixedX, LineConstPrefixed, LineEnumOpen, LineBodyHiddenConst,
     LineClassPrefixed, LineVarV, LineVarX, LineOpenContinued}

NextSettings == NextOn(SettingLines, MaxSettingLines)

SpecSettings == Init /\ [][NextSettings]_vars

\* ------------------------------------------------------------------------
\* Properties of SpecSettings
\* ------------------------------------------------------------------------

\* The files of n physical lines drawn from lines.
FilesOf(lines, n) == [1..n -> lines]

\* The state of the machine as the record the function parse_file runs on.
StateNow ==
    [pc |-> pc, lineno |-> lineno, parsing_mode |-> parsing_mode,
     comment_buffer |-> comment_buffer, override_visibility |-> override_visibility,
     open_parentheses |-> open_parentheses, full_line |-> full_line,
     partial_line |-> partial_line, result |-> result]

\* Every state in which the machine has returned is the state the function
\* parse_file ends in on a file of the lines read, under the same setting.
MachineReturnsAsFunction ==
    pc = "done" =>
        \E file \in FilesOf(SettingLines, lineno) :
            Run(file, show_prefixed, InitialState) = StateNow

\* C31: whether a file parses does not depend on the visibility setting: for
\* every file that gives the result the machine has returned, parsing it
\* under the other setting returns an error if and only if this result is
\* an error.
C31_SuccessIndependentOfVisibility ==
    pc = "done" =>
        \A file \in FilesOf(SettingLines, lineno) :
            parse_file(file, show_prefixed) = result =>
                (Unwrap(parse_file(file, ~show_prefixed)).ok <=> Unwrap(result).ok)

\* ------------------------------------------------------------------------
\* SpecLocals: indented lines while the root scope is on top
\* ------------------------------------------------------------------------

MaxLocalLines == 3

\* \tvar i = 0
LineLocalVar == <<"\t", "v", "a", "r", " ", "i", " ", "=", " ", "0">>
\*     var j
LineSpaceVar == <<" ", " ", " ", " ", "v", "a", "r", " ", "j">>
\* \tfunc g():
LineLocalFunc == <<"\t", "f", "u", "n", "c", " ", "g", "(", ")", ":">>
\* \tconst k = 1
LineLocalConst ==
    <<"\t", "c", "o", "n", "s", "t", " ", "k", " ", "=", " ", "1">>
\*  signal s
LineLocalSignal == <<" ", "s", "i", "g", "n", "a", "l", " ", "s">>
\* \texport var e
LineLocalExport ==
    <<"\t", "e", "x", "p", "o", "r", "t", " ", "v", "a", "r", " ", "e">>
\* \tvar a = \\
LineLocalContinued == <<"\t", "v", "a", "r", " ", "a", " ", "=", " ", "\\">>

\* The lines that begin with a tab or a space.
IndentedLines ==
    {LineLocalVar, LineSpaceVar, LineLocalFunc, LineLocalConst, LineLocalSignal,
     LineLocalExport, LineLocalContinued, LineClassB, LineEnumE}

LocalLines == IndentedLines \cup {LineFuncF, LineVarV, LineClassA, LineOpenContinued}

NextLocals == NextOn(LocalLines, MaxLocalLines)

SpecLocals == Init /\ [][NextLocals]_vars

\* ------------------------------------------------------------------------
\* Properties of SpecLocals
\* ------------------------------------------------------------------------

\* The logical line in front of parse_line begins with a tab or a space and
\* the root scope is on top of the stack.
IndentedAtRoot ==
    /\ pc = "parse_line"
    /\ Top(parsing_mode).tag = "Normal"
    /\ full_line # <<>>
    /\ full_line[1] \in {"\t", " "}

\* C32: while the root scope is on top of the stack, a logical line that
\* begins with a tab or a space adds no symbol to the root frame and opens no
\* scope: the scope stack with every root bucket is unchanged by it, and the
\* parse goes on.
C32_IndentedRootLineIgnored ==
    [][IndentedAtRoot =>
           (parsing_mode' = parsing_mode /\ result' = None /\ pc' = "next")]_vars

\* func f(): and an indented line have been read, in either order: the root
\* holds the function f and nothing else, and no scope is open.
C32_Witness ==
    /\ pc = "next"
    /\ lineno = 2
    /\ parsing_mode =
           <<NormalMode([EmptyClassFrame EXCEPT !.functions = RootFrame.functions])>>
    /\ Len(RootFrame.functions) = 1
    /\ RootFrame.functions[1].name = <<"f">>

====
